---- MODULE Spec2Model ----
(***************************************************************************)
(* IntentFlow: the signal-to-decision pipeline.                            *)
(*                                                                         *)
(*   SpecAB   the A/B Explorer of src/sdk/engine/ab-explorer.js, one tab,  *)
(*            working localStorage.                                        *)
(*   SpecObs  the Context Observer of src/sdk/engine/context-observer.js   *)
(*            together with personalize() of src/sdk/intentflow.js.        *)
(*   SpecAgg  aggregateScores of src/sdk/engine/intent-detector.js applied *)
(*            to bounded lists of score vectors, followed by decide.       *)
(*   SpecDetect  personalize() of src/sdk/intentflow.js with the signal   *)
(*            extractors and detect() of intent-detector.js, over bounded  *)
(*            page contexts and the embedded registries.                   *)
(*   SpecDecide  the Decision Engine of src/sdk/engine/ab-explorer.js and  *)
(*            personalize(override), over bounded registries and intent    *)
(*            results.                                                     *)
(*   SpecDenied  the A/B Explorer with a localStorage that throws on every *)
(*            access.                                                      *)
(*   SpecTabs  two tabs running the A/B Explorer over one localStorage,    *)
(*            each call split at its loadState and its saveState.          *)
(*   SpecLoad  loadRegistries and the first personalize() of               *)
(*            src/sdk/intentflow.js, with parseQueryParams over raw query  *)
(*            strings.                                                     *)
(*   SpecHero  the Injector of src/sdk/ui/injector.js and its timers,      *)
(*            after personalize().                                         *)
(*   SpecWatch  the Context Observer calling the Decision Engine, with     *)
(*            repeated init calls and a one second clock.                  *)
(*   SpecPages  personalize() with the A/B Explorer and the page overrides *)
(*            of MultiPage in src/sdk/ui/preview-mode.js.                  *)
(*   SpecToggle  SpecWatch with the persona toggle of src/demo/demo.js.    *)
(*   SpecScroll  the scroll listener of the Context Observer, sampling the *)
(*            scroll position on a clock of uneven gaps.                   *)
(*                                                                         *)
(* Every specification constrains all variables; the variables of the      *)
(* components a specification does not exercise keep their initial value.  *)
(***************************************************************************)
EXTENDS Integers, Sequences, FiniteSets, TLC

VARIABLES
    \* ---- A/B Explorer ----
    storage,        \* the JSON document under localStorage['intentflow_ab']
    abEnabledFlag,  \* localStorage['intentflow_ab_enabled'] === 'true'
    urlAbParam,     \* the page URL carries intentflow_ab=true
    returned,       \* per intent: what the latest assignVariant call returned
    lastCall,       \* the latest call of the exported A/B API and its result
    \* ---- Context Observer, personalize() ----
    now,                        \* Date.now()
    isInitialized,              \* ContextObserver: init() has run
    observerStarted,            \* the settle timer fired: listeners are set up
    initTime,                   \* when init() armed the settle timer
    lastRePersonalizationTime,
    behaviorScores,
    currentSessionIntent,
    observedActions,            \* its length and the latest entry
    lastDecision,               \* IF._lastDecision.intent, None while unset
    lastCycle,                  \* the intent result of the latest personalize()
    eventCounts,                \* EventTracker: records logged, per event name
    sdkState,                   \* IntentFlow.init(): "unloaded", "loading", "ready"
    \* ---- Intent Scorer ----
    allScores,      \* the list of score vectors handed to aggregateScores
    aggregated,     \* what aggregateScores returned for it
    \* ---- Page context, Decision Engine ----
    \* A value that is not there yet is <<>>, one that is there is <<v>>.
    context,            \* what the latest detect() call read: query,
                        \* referrer, persona attributes, display, hour
    templateRegistry,   \* DecisionEngine: templateRegistry
    assetRegistry,      \* DecisionEngine: assetRegistry
    lastIntentResult,   \* the argument of the latest decide call
    decision,           \* what the latest decide call returned
    decidedWith,        \* the registries the latest decide call read, and
                        \* whether it repeated the call before it
    \* ---- A/B Explorer calls in flight, per tab ----
    pending,        \* per tab: the call between its loadState and saveState
    tabLog,         \* the calls begun and completed, the saves made
    \* ---- loadRegistries ----
    loaded,         \* loaded.templates, loaded.assets: <<>> while null
    loadCount,      \* count: the requests that have settled
    \* ---- Injector, EventTracker ----
    hero,           \* the [data-intentflow-hero] element, <<>> when the
                    \* page has none
    defaultContent, \* Injector: defaultContent, <<>> while null
    timers,         \* the setTimeout callbacks of inject not yet run
    uncaught,       \* the exception the latest timer callback let escape
    ctaClickEvents, \* EventTracker: the cta_click records logged
    \* ---- scroll listener, demo page, observer report ----
    scrollTracker,  \* ContextObserver: scrollTracker
    currentPersona, \* demo.js: currentPersona
    actionTypes     \* the type of every entry of observedActions, in order

abVars == <<storage, abEnabledFlag, urlAbParam, returned, lastCall>>

obsVars == <<now, isInitialized, observerStarted, initTime,
             lastRePersonalizationTime, behaviorScores, currentSessionIntent,
             observedActions, lastDecision, lastCycle, eventCounts, sdkState>>

aggVars == <<allScores, aggregated>>

pipeVars == <<context, templateRegistry, assetRegistry,
              lastIntentResult,
              decision, decidedWith>>

tabVars == <<pending, tabLog>>

loadVars == <<loaded, loadCount>>

heroVars == <<hero, defaultContent, timers, uncaught, ctaClickEvents>>

sessionVars == <<scrollTracker, currentPersona, actionTypes>>

pageVars == <<tabVars, loadVars, heroVars, sessionVars>>

vars == <<abVars, obsVars, aggVars, pipeVars, pageVars>>

None == "none"

\* INTENTS, in the enumeration order of the object literal.
INTENTS == <<"BUY_NOW", "COMPARE", "USE_CASE", "BUDGET", "DEFAULT">>

IntentSet == {INTENTS[k] : k \in 1..Len(INTENTS)}

Variants == {"A", "B"}

(***************************************************************************)
(* Context Observer: constants and module state                            *)
(***************************************************************************)

\* Bound: the number of observer-triggered re-personalizations of a run.
MaxTriggers == 2

\* Scores are exact rationals held as integers: one unit is
\* 0.01 / 5^MaxTriggers, so that each of the at most MaxTriggers decays by
\* 0.4 = 2/5 is exact.  (The code adds and multiplies IEEE doubles; the
\* rounding error of a double is abstracted away.)
ScoreUnit == 5 ^ MaxTriggers

\* h hundredths as a score.
Hundredths(h) == h * ScoreUnit

\* CONFIG.MIN_CONFIDENCE_SHIFT = 0.3, in hundredths.
MIN_CONFIDENCE_SHIFT == 30

COOLDOWN_MS == 5000

OBSERVATION_DELAY_MS == 2000

\* behaviorScores[key] *= 0.4, as the fraction DecayNum / DecayDen.
DecayNum == 4

DecayDen == 10

\* Bounds of the clock: Date.now() when the page loads (any wall-clock value;
\* it is far above COOLDOWN_MS on every real clock, while
\* lastRePersonalizationTime starts at 0), the step of a clock tick, and the
\* number of ticks of a run.  A tick of COOLDOWN_MS puts a later event
\* either at the instant of a re-personalization or exactly one cooldown
\* interval after it.
StartTime == 10000

TickMs == 5000

MaxTicks == 1

\* Bound: the number of entries of observedActions.
MaxActions == 4

\* Bound: the number of personalize() calls of a run made from the preview
\* panel or the persona toggle.
MaxSimulations == 1

ZeroScores == [i \in IntentSet |-> 0]

NoCycle == [override |-> None, intent |-> None, detected |-> FALSE]

NoAction == [type |-> None, intent |-> None, weight |-> 0]

InitObserverState ==
    /\ now = StartTime
    /\ isInitialized = FALSE
    /\ observerStarted = FALSE
    /\ initTime = 0
    /\ lastRePersonalizationTime = 0
    /\ behaviorScores = ZeroScores
    /\ currentSessionIntent = None
    /\ observedActions = [length |-> 0, last |-> NoAction]
    /\ lastDecision = None
    /\ lastCycle = NoCycle
    /\ eventCounts = [behavioral_re_personalization |-> 0, decision_made |-> 0]
    /\ sdkState = "unloaded"

(***************************************************************************)
(* Intent Scorer: module state                                             *)
(***************************************************************************)

\* No result yet.
NotAggregated == [intent |-> None, confidence |-> 0, scores |-> ZeroScores]

InitScorerState ==
    /\ allScores = <<>>
    /\ aggregated = NotAggregated

(***************************************************************************)
(* Page context and Decision Engine: module state                          *)
(***************************************************************************)

\* The query parameters the extractors read, out of parseQueryParams().
ParamKeys ==
    {"intent", "persona", "utm_campaign", "utm_source", "behavior",
     "q", "query", "search", "keyword", "keywords"}

\* No query string.  A JavaScript string is the sequence of its characters
\* and '' is <<>>; an absent parameter, attribute or referrer is '' too: the
\* code tests each of them for truthiness only.
NoParams == [key \in ParamKeys |-> <<>>]

\* A page opened without query string, referrer or persona attribute, on a
\* desktop display at noon.
BlankContext ==
    [params |-> NoParams, referrer |-> <<>>,
     heroPersona |-> <<>>, scriptPersona |-> <<>>,
     isTouchDevice |-> FALSE, screenWidth |-> 1920,
     devicePixelRatio |-> 1, innerWidth |-> 1920, hour |-> 12]

\* decide(null), decide(undefined): no intent result.  In an intent result an
\* absent intent is None, an absent confidence is 0 (both are tested for
\* truthiness only) and signalsGiven tells an absent signal list from [].
NullResult ==
    [null |-> TRUE, intent |-> None, confidence |-> 0, scores |-> <<>>,
     signals |-> <<>>, signalsGiven |-> FALSE]

\* var templateRegistry = null
NullTemplates ==
    [loaded |-> FALSE, hasTemplates |-> FALSE, templates |-> <<>>,
     defaultTemplate |-> None]

\* var assetRegistry = null
NullAssets == [loaded |-> FALSE, hasContent |-> FALSE, content |-> {}]

NoTemplate == [key |-> None, id |-> None, intents |-> {}]

NoReason ==
    [signalCount |-> 0, intent |-> None, percent |-> 0, signals |-> <<>>,
     template |-> None, content |-> None]

\* No decide call has returned yet.
NoDecision == <<>>

InitEngineState ==
    /\ templateRegistry = NullTemplates
    /\ assetRegistry = NullAssets
    /\ lastIntentResult = <<>>
    /\ decision = NoDecision
    /\ decidedWith = <<>>

InitPipelineState ==
    /\ context = <<>>
    /\ InitEngineState

(***************************************************************************)
(* Tabs, registry loading, hero element: module state                      *)
(***************************************************************************)

\* One tab, no A/B call in flight.
InitTabState ==
    /\ pending = <<>>
    /\ tabLog = <<>>

\* loadRegistries has not been called.
InitLoadState ==
    /\ loaded = <<>>
    /\ loadCount = 0

\* A page without [data-intentflow-hero] element: inject returns false and
\* changes nothing.
InitHeroState ==
    /\ hero = <<>>
    /\ defaultContent = <<>>
    /\ timers = <<>>
    /\ uncaught = None
    /\ ctaClickEvents = 0

\* No scroll sample yet, the persona toggle at its first button, nothing
\* observed.
InitSessionState ==
    /\ scrollTracker = [lastY |-> 0, lastTime |-> 0, velocities |-> <<>>]
    /\ currentPersona = "DEFAULT"
    /\ actionTypes = <<>>

InitPageState ==
    InitTabState /\ InitLoadState /\ InitHeroState /\ InitSessionState

(***************************************************************************)
(* A/B Explorer                                                            *)
(***************************************************************************)

MIN_SAMPLE_SIZE == 10

\* Bounds of the A/B model: impressions recorded per intent, clicks recorded
\* per (intent, variant) key.
MaxImpressions == 11

MaxClicks == 1

\* The intents whose decisions SpecAB serves.  Every map of the persisted
\* state is keyed by intent and no operation on one intent reads or writes
\* the entry of another, so two intents (one scoring category and the
\* fallback) show the per-intent behaviour and the absence of interference.
ABIntents == {"BUY_NOW", "DEFAULT"}

\* intent + '_' + variant: distinct for distinct (intent, variant) pairs,
\* since no intent name is another intent name followed by '_A' or '_B'.
Key(intent, variant) == <<intent, variant>>

ABKeys == {Key(i, v) : i \in IntentSet, v \in Variants}

\* The object loadState returns when nothing is stored; an absent map entry
\* reads as None (falsy) in assignments/winners and as 0 (x || 0) in the
\* counters.
EmptyState ==
    [assignments |-> [i \in IntentSet |-> None],
     impressions |-> [k \in ABKeys |-> 0],
     clicks      |-> [k \in ABKeys |-> 0],
     winners     |-> [i \in IntentSet |-> None]]

\* loadState: JSON.parse of what saveState stored.  The stored values are
\* the strings 'A'/'B' and non-negative integers, which JSON round-trips.
loadState == storage

\* ctrA >= ctrB, with ctr = clicks / impressions when impressions > 0 and 0
\* otherwise; the quotients are compared by cross-multiplication.
CtrNum(c, n) == IF n > 0 THEN c ELSE 0

CtrDen(c, n) == IF n > 0 THEN n ELSE 1

CtrGeq(cA, nA, cB, nB) ==
    CtrNum(cA, nA) * CtrDen(cB, nB) >= CtrNum(cB, nB) * CtrDen(cA, nA)

\* Mutant of checkForWinner: the sample-size test is off by one.
checkForWinner_offByOne(intent, state) ==
    IF state.winners[intent] # None THEN state
    ELSE LET impressionsA == state.impressions[Key(intent, "A")]
             impressionsB == state.impressions[Key(intent, "B")]
             clicksA == state.clicks[Key(intent, "A")]
             clicksB == state.clicks[Key(intent, "B")]
         IN  IF impressionsA + impressionsB <= MIN_SAMPLE_SIZE THEN state
             ELSE [state EXCEPT !.winners[intent] =
                      IF CtrGeq(clicksA, impressionsA, clicksB, impressionsB)
                      THEN "A" ELSE "B"]

\* Mutant of checkForWinner: the 'already decided' early return is missing.
checkForWinner_reopen(intent, state) ==
    LET impressionsA == state.impressions[Key(intent, "A")]
        impressionsB == state.impressions[Key(intent, "B")]
        clicksA == state.clicks[Key(intent, "A")]
        clicksB == state.clicks[Key(intent, "B")]
    IN  IF impressionsA + impressionsB < MIN_SAMPLE_SIZE THEN state
        ELSE [state EXCEPT !.winners[intent] =
                 IF CtrGeq(clicksA, impressionsA, clicksB, impressionsB)
                 THEN "A" ELSE "B"]

\* Mutant of checkForWinner: a tie goes to 'B'.
checkForWinner_tieB(intent, state) ==
    IF state.winners[intent] # None THEN state
    ELSE LET impressionsA == state.impressions[Key(intent, "A")]
             impressionsB == state.impressions[Key(intent, "B")]
             clicksA == state.clicks[Key(intent, "A")]
             clicksB == state.clicks[Key(intent, "B")]
         IN  IF impressionsA + impressionsB < MIN_SAMPLE_SIZE THEN state
             ELSE [state EXCEPT !.winners[intent] =
                      IF CtrGeq(clicksB, impressionsB, clicksA, impressionsA)
                      THEN "B" ELSE "A"]

\* checkForWinner(intent, state): the state it leaves in storage.
checkForWinner(intent, state) ==
    IF state.winners[intent] # None THEN state
    ELSE LET impressionsA == state.impressions[Key(intent, "A")]
             impressionsB == state.impressions[Key(intent, "B")]
             clicksA == state.clicks[Key(intent, "A")]
             clicksB == state.clicks[Key(intent, "B")]
         IN  IF impressionsA + impressionsB < MIN_SAMPLE_SIZE THEN state
             ELSE [state EXCEPT !.winners[intent] =
                      IF CtrGeq(clicksA, impressionsA, clicksB, impressionsB)
                      THEN "A" ELSE "B"]

\* Mutant of assignVariant: an existing assignment is not honoured.
assignVariant_notSticky(state, intent, random) ==
    IF state.winners[intent] # None
    THEN [variant |-> state.winners[intent], state |-> state]
    ELSE [variant |-> random,
          state |-> [state EXCEPT !.assignments[intent] = random]]

\* Mutant of assignVariant: the assignment is consulted before the winner.
assignVariant_assignmentFirst(state, intent, random) ==
    IF state.assignments[intent] # None
    THEN [variant |-> state.assignments[intent], state |-> state]
    ELSE IF state.winners[intent] # None
    THEN [variant |-> state.winners[intent], state |-> state]
    ELSE [variant |-> random,
          state |-> [state EXCEPT !.assignments[intent] = random]]

\* assignVariant(intent) on the loaded state; random is the outcome of
\* Math.random() < 0.5 ? 'A' : 'B'.  Yields the variant returned and the
\* state left in storage (saveState runs on the last branch only).
assignVariant(state, intent, random) ==
    IF state.winners[intent] # None
    THEN [variant |-> state.winners[intent], state |-> state]
    ELSE IF state.assignments[intent] # None
    THEN [variant |-> state.assignments[intent], state |-> state]
    ELSE [variant |-> random,
          state |-> [state EXCEPT !.assignments[intent] = random]]

\* Mutant of recordImpression: the impression is booked on variant 'A'
\* whichever variant was served.
recordImpression_alwaysA(state, intent, variant) ==
    checkForWinner(intent,
        [state EXCEPT !.impressions[Key(intent, "A")] = @ + 1])

\* Mutant of recordImpression: the counter is not incremented.
recordImpression_noIncrement(state, intent, variant) ==
    checkForWinner(intent, state)

\* recordImpression(intent, variant): increment, save, then checkForWinner.
recordImpression(state, intent, variant) ==
    checkForWinner(intent,
        [state EXCEPT !.impressions[Key(intent, variant)] = @ + 1])

\* isEnabled(): the URL parameter or the localStorage flag.
isEnabled == urlAbParam \/ abEnabledFlag

TotalImpressions(state, intent) ==
    state.impressions[Key(intent, "A")] + state.impressions[Key(intent, "B")]

\* Mutant of variantB: the table has no entry for DEFAULT.
variantB_noDefault == {"BUY_NOW", "COMPARE", "USE_CASE", "BUDGET"}

\* The intents variantB holds alternate content for.
variantB == {"BUY_NOW", "COMPARE", "USE_CASE", "BUDGET", "DEFAULT"}

\* The tag applyVariant writes to decision._abVariant for the variant
\* assignVariant returned.
abVariantTag(intent, variant) ==
    IF variant = "B" /\ intent \in variantB THEN "B" ELSE "A"

\* applyVariant(decision) for a decision with decision.intent = intent.
\* abVariant is the tag written to decision._abVariant.
ApplyVariant(intent) ==
    IF ~isEnabled
    THEN /\ lastCall' = [op |-> "applyVariant", intent |-> intent,
                         variant |-> "A", abVariant |-> None,
                         enabled |-> FALSE,
                         winnerBefore |-> loadState.winners[intent]]
         /\ UNCHANGED <<storage, abEnabledFlag, urlAbParam, returned>>
    ELSE /\ TotalImpressions(loadState, intent) < MaxImpressions
         /\ \E random \in Variants :
               LET assigned == assignVariant(loadState, intent, random)
               IN  /\ storage' = recordImpression(assigned.state, intent,
                                                  assigned.variant)
                   /\ returned' = [returned EXCEPT ![intent] = assigned.variant]
                   /\ lastCall' = [op |-> "applyVariant", intent |-> intent,
                                   variant |-> assigned.variant,
                                   abVariant |->
                                       abVariantTag(intent, assigned.variant),
                                   enabled |-> TRUE,
                                   winnerBefore |-> loadState.winners[intent]]
         /\ UNCHANGED <<abEnabledFlag, urlAbParam>>

\* Mutant of RecordClick: the click is booked as an impression too.
RecordClick_countsImpression(intent, variant) ==
    /\ loadState.clicks[Key(intent, variant)] < MaxClicks
    /\ storage' = recordImpression(
                      [loadState EXCEPT !.clicks[Key(intent, variant)] = @ + 1],
                      intent, variant)
    /\ lastCall' = [op |-> "recordClick", intent |-> intent,
                    variant |-> variant, abVariant |-> None,
                    enabled |-> isEnabled,
                    winnerBefore |-> loadState.winners[intent]]
    /\ UNCHANGED <<abEnabledFlag, urlAbParam, returned>>

\* recordClick(intent, variant)
RecordClick(intent, variant) ==
    /\ loadState.clicks[Key(intent, variant)] < MaxClicks
    /\ storage' = [loadState EXCEPT !.clicks[Key(intent, variant)] = @ + 1]
    /\ lastCall' = [op |-> "recordClick", intent |-> intent,
                    variant |-> variant, abVariant |-> None,
                    enabled |-> isEnabled,
                    winnerBefore |-> loadState.winners[intent]]
    /\ UNCHANGED <<abEnabledFlag, urlAbParam, returned>>

\* enable()
Enable ==
    /\ ~abEnabledFlag
    /\ abEnabledFlag' = TRUE
    /\ UNCHANGED <<storage, urlAbParam, returned, lastCall>>

\* disable()
Disable ==
    /\ abEnabledFlag
    /\ abEnabledFlag' = FALSE
    /\ UNCHANGED <<storage, urlAbParam, returned, lastCall>>

NoCall == [op |-> None, intent |-> None, variant |-> None, abVariant |-> None,
           enabled |-> FALSE, winnerBefore |-> None]

InitAB ==
    /\ InitObserverState
    /\ InitScorerState
    /\ InitPageState
    /\ InitPipelineState
    /\ storage = EmptyState
    /\ abEnabledFlag = FALSE
    /\ urlAbParam \in BOOLEAN
    /\ returned = [i \in IntentSet |-> None]
    /\ lastCall = NoCall

NextAB ==
    \/ \E intent \in ABIntents : ApplyVariant(intent)
          /\ UNCHANGED <<obsVars, aggVars, pipeVars, pageVars>>
    \/ \E intent \in ABIntents, variant \in Variants :
          RecordClick(intent, variant)
                /\ UNCHANGED <<obsVars, aggVars, pipeVars, pageVars>>
    \/ Enable /\ UNCHANGED <<obsVars, aggVars, pipeVars, pageVars>>
    \/ Disable /\ UNCHANGED <<obsVars, aggVars, pipeVars, pageVars>>

SpecAB == InitAB /\ [][NextAB]_vars

(***************************************************************************)
(* The A/B Explorer when every localStorage access throws                  *)
(***************************************************************************)

\* Mutant of loadStateDenied: the failed read is ignored and the persisted
\* document is returned.
loadStateDenied_reads == storage

\* loadState() when localStorage.getItem throws: the catch block swallows
\* the error and the fresh empty state is returned.
loadStateDenied == EmptyState

\* saveState(state) when localStorage.setItem throws: the catch block
\* swallows the error; the stored document is what it was.
saveStateDenied(state) == storage

\* isEnabled() when localStorage.getItem throws: the URL parameter is read
\* first, outside the try block; the catch block returns false.
isEnabledDenied == urlAbParam

\* applyVariant(decision) for a decision with decision.intent = intent.
\* assignVariant and recordImpression each call loadState on their own;
\* checkForWinner runs on the object recordImpression holds in memory.
\* previous is what the preceding call for the intent returned, and
\* winnerAfter the winner entry of that object once checkForWinner is done
\* (it is announced exactly when it is set there).
DeniedApplyVariant(intent) ==
    IF ~isEnabledDenied
    THEN /\ lastCall' = [op |-> "applyVariant", intent |-> intent,
                         variant |-> "A", abVariant |-> None,
                         enabled |-> FALSE, random |-> None,
                         previous |-> returned[intent],
                         winnerAfter |-> None]
         /\ UNCHANGED <<storage, abEnabledFlag, urlAbParam, returned>>
    ELSE \E random \in Variants :
            LET assigned == assignVariant(loadStateDenied, intent, random)
                counted == recordImpression(loadStateDenied, intent,
                                            assigned.variant)
            IN  /\ storage' = saveStateDenied(counted)
                /\ returned' = [returned EXCEPT ![intent] = assigned.variant]
                /\ lastCall' = [op |-> "applyVariant", intent |-> intent,
                                variant |-> assigned.variant,
                                abVariant |->
                                    abVariantTag(intent, assigned.variant),
                                enabled |-> TRUE, random |-> random,
                                previous |-> returned[intent],
                                winnerAfter |-> counted.winners[intent]]
                /\ UNCHANGED <<abEnabledFlag, urlAbParam>>

\* recordClick(intent, variant)
DeniedRecordClick(intent, variant) ==
    /\ storage' = saveStateDenied(
           [loadStateDenied EXCEPT !.clicks[Key(intent, variant)] = @ + 1])
    /\ lastCall' = [op |-> "recordClick", intent |-> intent,
                    variant |-> variant, abVariant |-> None,
                    enabled |-> isEnabledDenied, random |-> None,
                    previous |-> returned[intent], winnerAfter |-> None]
    /\ UNCHANGED <<abEnabledFlag, urlAbParam, returned>>

\* enable(), disable(): setItem / removeItem throw, the flag stays.
DeniedSetFlag(op) ==
    /\ lastCall' = [op |-> op, intent |-> None, variant |-> None,
                    abVariant |-> None, enabled |-> isEnabledDenied,
                    random |-> None, previous |-> None, winnerAfter |-> None]
    /\ UNCHANGED <<storage, abEnabledFlag, urlAbParam, returned>>

\* Documents persisted while the storage still worked: none, an assignment
\* with impressions short of the sample, and a locked winner.
PersistedBefore ==
    { EmptyState,
      [EmptyState EXCEPT !.assignments["BUY_NOW"] = "A",
                         !.impressions[Key("BUY_NOW", "A")] = MIN_SAMPLE_SIZE - 1],
      [EmptyState EXCEPT !.assignments["BUY_NOW"] = "B",
                         !.impressions[Key("BUY_NOW", "B")] = MIN_SAMPLE_SIZE,
                         !.winners["BUY_NOW"] = "A"] }

InitDenied ==
    /\ InitObserverState
    /\ InitScorerState
    /\ InitPageState
    /\ InitPipelineState
    /\ storage \in PersistedBefore
    /\ abEnabledFlag \in BOOLEAN
    /\ urlAbParam \in BOOLEAN
    /\ returned = [i \in IntentSet |-> None]
    /\ lastCall = NoCall

NextDenied ==
    \/ \E intent \in ABIntents : DeniedApplyVariant(intent)
          /\ UNCHANGED <<obsVars, aggVars, pipeVars, pageVars>>
    \/ \E intent \in ABIntents, variant \in Variants :
          DeniedRecordClick(intent, variant)
                /\ UNCHANGED <<obsVars, aggVars, pipeVars, pageVars>>
    \/ \E op \in {"enable", "disable"} : DeniedSetFlag(op)
          /\ UNCHANGED <<obsVars, aggVars, pipeVars, pageVars>>

SpecDenied == InitDenied /\ [][NextDenied]_vars

(***************************************************************************)
(* SpecTabs: two tabs share the storage                                    *)
(***************************************************************************)

\* The tabs of one origin: they share localStorage, each runs its own
\* script.  Between the loadState and the saveState of a call of one tab the
\* other tab may run.
Tabs == {1, 2}

\* Bound: the A/B calls the tabs begin, taken together.
MaxTabCalls == 3

\* The intent both tabs serve.
TabIntent == "BUY_NOW"

\* A document persisted by earlier page views: variant 'A' assigned, its
\* impressions one short of the sample.
NearSample ==
    [EmptyState EXCEPT !.assignments[TabIntent] = "A",
                       !.impressions[Key(TabIntent, "A")] =
                           MIN_SAMPLE_SIZE - 1]

NotPending == <<>>

\* A save by tab t lands on a document another save replaced since t loaded.
Raced(t) == pending[t][1].loadedAt # tabLog.saves

\* assignVariant(intent) up to its loadState: the document read and the
\* outcome of Math.random().
TabLoadAssign(t) ==
    /\ pending[t] = NotPending
    /\ tabLog.begun < MaxTabCalls
    /\ isEnabled
    /\ \E random \in Variants :
          pending' = [pending EXCEPT ![t] =
              <<[op |-> "assignVariant", intent |-> TabIntent,
                 variant |-> random, state |-> loadState,
                 loadedAt |-> tabLog.saves]>>]
    /\ tabLog' = [tabLog EXCEPT !.begun = @ + 1]
    /\ UNCHANGED <<storage, abEnabledFlag, urlAbParam, returned, lastCall>>

\* The rest of assignVariant: saveState on the branch that assigned, and the
\* return into applyVariant, which tags the decision.
TabSaveAssign(t) ==
    /\ pending[t] # NotPending
    /\ pending[t][1].op = "assignVariant"
    /\ LET call == pending[t][1]
           assigned == assignVariant(call.state, call.intent, call.variant)
           saves == assigned.state # call.state
       IN  /\ storage' = IF saves THEN assigned.state ELSE storage
           /\ returned' = [returned EXCEPT ![call.intent] = assigned.variant]
           /\ pending' = [pending EXCEPT ![t] =
                  <<[call EXCEPT !.op = "applyVariant",
                                 !.variant = assigned.variant]>>]
           /\ tabLog' = IF saves
                        THEN [tabLog EXCEPT !.saves = @ + 1,
                                            !.raced = @ \/ Raced(t)]
                        ELSE tabLog
    /\ UNCHANGED <<abEnabledFlag, urlAbParam, lastCall>>

\* recordImpression(intent, variant) up to its loadState.
TabLoadImpression(t) ==
    /\ pending[t] # NotPending
    /\ pending[t][1].op = "applyVariant"
    /\ pending' = [pending EXCEPT ![t] =
           <<[pending[t][1] EXCEPT !.op = "recordImpression",
                                   !.state = loadState,
                                   !.loadedAt = tabLog.saves]>>]
    /\ UNCHANGED <<storage, abEnabledFlag, urlAbParam, returned, lastCall,
                   tabLog>>

\* The rest of recordImpression: the increment, saveState, checkForWinner on
\* the object in memory (which saves again when it locks a winner).
TabSaveImpression(t) ==
    /\ pending[t] # NotPending
    /\ pending[t][1].op = "recordImpression"
    /\ LET call == pending[t][1]
       IN  /\ storage' = recordImpression(call.state, call.intent,
                                          call.variant)
           /\ tabLog' = [tabLog EXCEPT !.impressions[call.variant] = @ + 1,
                                       !.saves = @ + 1,
                                       !.raced = @ \/ Raced(t)]
    /\ pending' = [pending EXCEPT ![t] = NotPending]
    /\ UNCHANGED <<abEnabledFlag, urlAbParam, returned, lastCall>>

\* recordClick(intent, variant) up to its loadState.
TabLoadClick(t, variant) ==
    /\ pending[t] = NotPending
    /\ tabLog.begun < MaxTabCalls
    /\ pending' = [pending EXCEPT ![t] =
           <<[op |-> "recordClick", intent |-> TabIntent,
              variant |-> variant, state |-> loadState,
              loadedAt |-> tabLog.saves]>>]
    /\ tabLog' = [tabLog EXCEPT !.begun = @ + 1]
    /\ UNCHANGED <<storage, abEnabledFlag, urlAbParam, returned, lastCall>>

\* The rest of recordClick: the increment and saveState.
TabSaveClick(t) ==
    /\ pending[t] # NotPending
    /\ pending[t][1].op = "recordClick"
    /\ LET call == pending[t][1]
       IN  /\ storage' = [call.state EXCEPT
                             !.clicks[Key(call.intent, call.variant)] = @ + 1]
           /\ tabLog' = [tabLog EXCEPT !.clicks[call.variant] = @ + 1,
                                       !.saves = @ + 1,
                                       !.raced = @ \/ Raced(t)]
    /\ pending' = [pending EXCEPT ![t] = NotPending]
    /\ UNCHANGED <<abEnabledFlag, urlAbParam, returned, lastCall>>

\* tabLog counts the record calls completed for TabIntent, per variant,
\* those behind the persisted document included.
InitTabs ==
    /\ InitObserverState
    /\ InitScorerState
    /\ InitPipelineState
    /\ InitLoadState
    /\ InitSessionState
    /\ InitHeroState
    /\ storage \in {EmptyState, NearSample}
    /\ abEnabledFlag = FALSE
    /\ urlAbParam = TRUE
    /\ returned = [i \in IntentSet |-> None]
    /\ lastCall = NoCall
    /\ pending = [t \in Tabs |-> NotPending]
    /\ tabLog = [impressions |->
                    [v \in Variants |-> storage.impressions[Key(TabIntent, v)]],
                 clicks |->
                    [v \in Variants |-> storage.clicks[Key(TabIntent, v)]],
                 begun |-> 0, saves |-> 0, raced |-> FALSE]

NextTabs ==
    \/ \E t \in Tabs : TabLoadAssign(t)
          /\ UNCHANGED <<obsVars, aggVars, pipeVars, loadVars, heroVars, sessionVars>>
    \/ \E t \in Tabs : TabSaveAssign(t)
          /\ UNCHANGED <<obsVars, aggVars, pipeVars, loadVars, heroVars, sessionVars>>
    \/ \E t \in Tabs : TabLoadImpression(t)
          /\ UNCHANGED <<obsVars, aggVars, pipeVars, loadVars, heroVars, sessionVars>>
    \/ \E t \in Tabs : TabSaveImpression(t)
          /\ UNCHANGED <<obsVars, aggVars, pipeVars, loadVars, heroVars, sessionVars>>
    \/ \E t \in Tabs, variant \in Variants : TabLoadClick(t, variant)
          /\ UNCHANGED <<obsVars, aggVars, pipeVars, loadVars, heroVars, sessionVars>>
    \/ \E t \in Tabs : TabSaveClick(t)
          /\ UNCHANGED <<obsVars, aggVars, pipeVars, loadVars, heroVars, sessionVars>>

SpecTabs == InitTabs /\ [][NextTabs]_vars

(***************************************************************************)
(* personalize() and the Context Observer                                  *)
(***************************************************************************)

\* Mutant of IntentResult: the override is ignored and detection runs.
IntentResult_ignoreOverride(override, detected) ==
    [override |-> override, intent |-> detected, detected |-> TRUE]

\* personalize, step 1: the intent result handed to the Decision Engine.
\* With an override the result is synthetic and IntentDetector.detect() does
\* not run; otherwise it is detect()'s result, whose intent (a function of
\* the page context: query string, referrer, device, hour) is an input.
IntentResult(override, detected) ==
    IF override # None
    THEN [override |-> override, intent |-> override, detected |-> FALSE]
    ELSE [override |-> None, intent |-> detected, detected |-> TRUE]

\* One personalization cycle, personalize(override): intent result, decide
\* (decision.intent = intentResult.intent), the A/B overlay when exploration
\* is enabled, the decision_made record and IF._lastDecision.  counts is the
\* event log as the caller left it.  The cycle is taken to complete: decide
\* and inject do not throw on the registries the SDK ships or falls back to.
PersonalizeCycle(override, counts) ==
    /\ \E detected \in (IF override = None THEN IntentSet ELSE {override}) :
          LET intentResult == IntentResult(override, detected)
          IN  /\ lastCycle' = intentResult
              /\ lastDecision' = intentResult.intent
              /\ IF isEnabled
                 THEN ApplyVariant(intentResult.intent)
                 ELSE UNCHANGED abVars
    /\ eventCounts' = [counts EXCEPT !.decision_made = @ + 1]

\* Mutant of ObserverEvents: a call site scores the DEFAULT key.
ObserverEvents_defaultScored ==
    {[type |-> "click_cta",      intent |-> "BUY_NOW",  weight |-> 20],
     [type |-> "page_idle",      intent |-> "DEFAULT",  weight |-> 5]}

\* The addBehaviorScore call sites: action type, intent, weight (hundredths).
ObserverEvents ==
    {[type |-> "fast_scroll",    intent |-> "COMPARE",  weight |-> 5],
     [type |-> "click_price",    intent |-> "BUDGET",   weight |-> 15],
     [type |-> "click_cta",      intent |-> "BUY_NOW",  weight |-> 20],
     [type |-> "click_specs",    intent |-> "COMPARE",  weight |-> 15],
     [type |-> "click_category", intent |-> "USE_CASE", weight |-> 15],
     [type |-> "section_view",   intent |-> "BUY_NOW",  weight |-> 10],
     [type |-> "section_view",   intent |-> "BUY_NOW",  weight |-> 8],
     [type |-> "product_view",   intent |-> "BUY_NOW",  weight |-> 5],
     [type |-> "hover_dwell",    intent |-> "USE_CASE", weight |-> 10],
     [type |-> "hover_dwell",    intent |-> "BUY_NOW",  weight |-> 8]}

\* The loop of checkForRePersonalization over behaviorScores, in key order,
\* from position k with the running maxScore and dominantIntent.
RECURSIVE DominantFrom(_, _, _, _)
DominantFrom(scores, k, maxScore, dominantIntent) ==
    IF k > Len(INTENTS) THEN [maxScore |-> maxScore, intent |-> dominantIntent]
    ELSE IF INTENTS[k] = "DEFAULT"
    THEN DominantFrom(scores, k + 1, maxScore, dominantIntent)
    ELSE IF scores[INTENTS[k]] > maxScore
    THEN DominantFrom(scores, k + 1, scores[INTENTS[k]], INTENTS[k])
    ELSE DominantFrom(scores, k + 1, maxScore, dominantIntent)

Dominant(scores) == DominantFrom(scores, 1, 0, None)

\* Mutant of checkForRePersonalization: no minimum-shift test.
checkForRePersonalization_noThreshold(scores, t, last, currentIntent) ==
    IF t - last < COOLDOWN_MS THEN None
    ELSE IF Dominant(scores).intent = None THEN None
    ELSE IF Dominant(scores).intent # currentIntent
    THEN Dominant(scores).intent
    ELSE None

\* Mutant of checkForRePersonalization: no cooldown test.
checkForRePersonalization_noCooldown(scores, t, last, currentIntent) ==
    IF \/ Dominant(scores).intent = None
       \/ Dominant(scores).maxScore < Hundredths(MIN_CONFIDENCE_SHIFT)
    THEN None
    ELSE IF Dominant(scores).intent # currentIntent
    THEN Dominant(scores).intent
    ELSE None

\* The decision of checkForRePersonalization at time t: the intent to
\* re-personalize with, or None when one of its tests returns early.
checkForRePersonalization(scores, t, last, currentIntent) ==
    IF t - last < COOLDOWN_MS THEN None
    ELSE IF \/ Dominant(scores).intent = None
            \/ Dominant(scores).maxScore < Hundredths(MIN_CONFIDENCE_SHIFT)
    THEN None
    ELSE IF Dominant(scores).intent # currentIntent
    THEN Dominant(scores).intent
    ELSE None

\* Mutant of DecayScores: the accumulator is cleared.
DecayScores_reset(scores) == [key \in DOMAIN scores |-> 0]

\* for (key in behaviorScores) behaviorScores[key] *= 0.4
DecayScores(scores) ==
    [key \in DOMAIN scores |-> (scores[key] * DecayNum) \div DecayDen]

\* IF._lastDecision ? IF._lastDecision.intent : 'DEFAULT'
CurrentIntent == IF lastDecision # None THEN lastDecision ELSE "DEFAULT"

\* addBehaviorScore(intent, weight, actionType, description) from one of its
\* call sites, with the checkForRePersonalization it ends with.
AddBehaviorScore(ev) ==
    /\ observerStarted
    /\ observedActions.length < MaxActions
    /\ observedActions' = [length |-> observedActions.length + 1, last |-> ev]
    /\ LET scores == [behaviorScores EXCEPT
                         ![ev.intent] = @ + Hundredths(ev.weight)]
           dominantIntent == checkForRePersonalization(
                                 scores, now, lastRePersonalizationTime,
                                 CurrentIntent)
       IN  IF dominantIntent # None
           THEN /\ eventCounts.behavioral_re_personalization < MaxTriggers
                /\ lastRePersonalizationTime' = now
                /\ PersonalizeCycle(dominantIntent,
                      [eventCounts EXCEPT
                          !.behavioral_re_personalization = @ + 1])
                /\ behaviorScores' = DecayScores(scores)
                /\ currentSessionIntent' = dominantIntent
           ELSE /\ behaviorScores' = scores
                /\ UNCHANGED <<lastRePersonalizationTime, currentSessionIntent,
                               lastDecision, lastCycle, eventCounts, abVars>>
    /\ UNCHANGED <<now, isInitialized, observerStarted, initTime, sdkState>>

\* IntentFlow.init(): ContextObserver.init() arms the settle timer, then the
\* registries start loading.
SdkInit ==
    /\ sdkState = "unloaded"
    /\ sdkState' = "loading"
    /\ isInitialized' = TRUE
    /\ initTime' = now
    /\ UNCHANGED <<now, observerStarted, lastRePersonalizationTime,
                   behaviorScores, currentSessionIntent, observedActions,
                   lastDecision, lastCycle, eventCounts, abVars>>

\* The callback of loadRegistries: DecisionEngine.init, then personalize().
RegistriesLoaded ==
    /\ sdkState = "loading"
    /\ sdkState' = "ready"
    /\ PersonalizeCycle(None, eventCounts)
    /\ UNCHANGED <<now, isInitialized, observerStarted, initTime,
                   lastRePersonalizationTime, behaviorScores,
                   currentSessionIntent, observedActions>>

\* The settle timer of ContextObserver.init(): the listeners are set up.
ObserverStart ==
    /\ isInitialized
    /\ ~observerStarted
    /\ now - initTime >= OBSERVATION_DELAY_MS
    /\ observerStarted' = TRUE
    /\ UNCHANGED <<now, isInitialized, initTime, lastRePersonalizationTime,
                   behaviorScores, currentSessionIntent, observedActions,
                   lastDecision, lastCycle, eventCounts, sdkState, abVars>>

\* The personalize() calls made so far by neither the observer nor init():
\* every cycle logs one decision_made record.
Simulations ==
    eventCounts.decision_made - eventCounts.behavioral_re_personalization
        - (IF sdkState = "ready" THEN 1 ELSE 0)

\* IntentFlow.personalize({ intent: intent }) from the preview panel or the
\* demo's persona toggle.
SimulateIntent(intent) ==
    /\ sdkState # "unloaded"
    /\ Simulations < MaxSimulations
    /\ PersonalizeCycle(intent, eventCounts)
    /\ UNCHANGED <<now, isInitialized, observerStarted, initTime,
                   lastRePersonalizationTime, behaviorScores,
                   currentSessionIntent, observedActions, sdkState>>

\* The clock advances.  StartTime is the time of IntentFlow.init().
Tick ==
    /\ sdkState # "unloaded"
    /\ now + TickMs <= StartTime + MaxTicks * TickMs
    /\ now' = now + TickMs
    /\ UNCHANGED <<isInitialized, observerStarted, initTime,
                   lastRePersonalizationTime, behaviorScores,
                   currentSessionIntent, observedActions, lastDecision,
                   lastCycle, eventCounts, sdkState, abVars>>

InitObs ==
    /\ InitObserverState
    /\ InitScorerState
    /\ InitPageState
    /\ InitPipelineState
    /\ storage = EmptyState
    /\ abEnabledFlag = FALSE
    /\ urlAbParam = FALSE
    /\ returned = [i \in IntentSet |-> None]
    /\ lastCall = NoCall

NextObs ==
    \/ SdkInit /\ UNCHANGED <<aggVars, pipeVars, pageVars>>
    \/ RegistriesLoaded /\ UNCHANGED <<aggVars, pipeVars, pageVars>>
    \/ ObserverStart /\ UNCHANGED <<aggVars, pipeVars, pageVars>>
    \/ \E ev \in ObserverEvents : AddBehaviorScore(ev)
          /\ UNCHANGED <<aggVars, pipeVars, pageVars>>
    \/ \E intent \in IntentSet : SimulateIntent(intent)
          /\ UNCHANGED <<aggVars, pipeVars, pageVars>>
    \/ Tick /\ UNCHANGED <<aggVars, pipeVars, pageVars>>

SpecObs == InitObs /\ [][NextObs]_vars

(***************************************************************************)
(* Intent Scorer: aggregateScores                                          *)
(***************************************************************************)

\* Scores are held as integers, in hundredths; a confidence is held in
\* ten-thousandths, so that a value that is not a multiple of 0.01 can be
\* told from one that is.  (The code computes on IEEE doubles; a quotient's
\* rounding error, which can move a value lying on a rounding boundary, is
\* abstracted away.)
ConfidenceOne == 10000

\* Bounds: the length of the list of score vectors, and the weights a vector
\* carries (hundredths).
MaxVectors == 3

ScoreWeights == {5, 12, 30, 100}

\* The score vectors an extractor can return: all zero, or one weight on one
\* intent.
ScoreSets ==
    {ZeroScores} \cup
    {[ZeroScores EXCEPT ![i] = w] : i \in IntentSet, w \in ScoreWeights}

\* totals after the loop over allScores[k..].
RECURSIVE Totals(_, _)
Totals(scoreSets, k) ==
    IF k > Len(scoreSets) THEN ZeroScores
    ELSE [i \in IntentSet |-> scoreSets[k][i] + Totals(scoreSets, k + 1)[i]]

\* The loop that finds the highest scoring intent, over Object.entries(totals)
\* in key order, from position k.
RECURSIVE WinnerFrom(_, _, _, _)
WinnerFrom(totals, k, maxScore, winner) ==
    IF k > Len(INTENTS) THEN [maxScore |-> maxScore, winner |-> winner]
    ELSE IF INTENTS[k] = "DEFAULT"
    THEN WinnerFrom(totals, k + 1, maxScore, winner)
    ELSE IF totals[INTENTS[k]] > maxScore
    THEN WinnerFrom(totals, k + 1, totals[INTENTS[k]], INTENTS[k])
    ELSE WinnerFrom(totals, k + 1, maxScore, winner)

\* Object.values(totals).reduce(a + b, 0)
RECURSIVE SumFrom(_, _)
SumFrom(totals, k) ==
    IF k > Len(INTENTS) THEN 0 ELSE totals[INTENTS[k]] + SumFrom(totals, k + 1)

\* Math.round(confidence * 100) / 100 for confidence = num / den >= 0, in
\* ten-thousandths: Math.round rounds half up.
RoundConfidence(num, den) ==
    ((2 * 100 * num + den) \div (2 * den)) * (ConfidenceOne \div 100)

\* Mutant of Confidence: the value is not rounded to two decimals.
Confidence_notRounded(maxScore, totalScore) ==
    IF totalScore > 0
    THEN IF 3 * maxScore >= 2 * totalScore THEN ConfidenceOne
         ELSE (ConfidenceOne * 3 * maxScore) \div (2 * totalScore)
    ELSE ConfidenceOne \div 2

\* Mutant of Confidence: the cap Math.min(..., 1.0) is missing.
Confidence_notCapped(maxScore, totalScore) ==
    IF totalScore > 0
    THEN RoundConfidence(3 * maxScore, 2 * totalScore)
    ELSE RoundConfidence(1, 2)

\* totalScore > 0 ? Math.min(maxScore / totalScore * 1.5, 1.0) : 0.5, then
\* rounded to two decimals.
Confidence(maxScore, totalScore) ==
    IF totalScore > 0
    THEN IF 3 * maxScore >= 2 * totalScore THEN RoundConfidence(1, 1)
         ELSE RoundConfidence(3 * maxScore, 2 * totalScore)
    ELSE RoundConfidence(1, 2)

\* Mutant of aggregateScores: the DEFAULT total competes for the maximum.
aggregateScores_defaultCompetes(scoreSets) ==
    LET totals == Totals(scoreSets, 1)
        found == WinnerFrom(totals, 1, 0, "DEFAULT")
        weak == found.maxScore < 10 \/ totals["DEFAULT"] > found.maxScore
        winner == IF weak THEN "DEFAULT" ELSE found.winner
        maxScore == IF weak THEN 100 ELSE found.maxScore
    IN  [intent |-> winner,
         confidence |-> Confidence(maxScore, SumFrom(totals, 1)),
         scores |-> totals]

\* aggregateScores(allScores): below the floor 0.1 (10 hundredths) the winner
\* is DEFAULT and maxScore becomes 1.0 (100 hundredths).
aggregateScores(scoreSets) ==
    LET totals == Totals(scoreSets, 1)
        found == WinnerFrom(totals, 1, 0, "DEFAULT")
        weak == found.maxScore < 10
        winner == IF weak THEN "DEFAULT" ELSE found.winner
        maxScore == IF weak THEN 100 ELSE found.maxScore
    IN  [intent |-> winner,
         confidence |-> Confidence(maxScore, SumFrom(totals, 1)),
         scores |-> totals]

(***************************************************************************)
(* Signal extractors and detect                                            *)
(***************************************************************************)

LowerCase == <<"a", "b", "c", "d", "e", "f", "g", "h", "i", "j", "k", "l",
    "m", "n", "o", "p", "q", "r", "s", "t", "u", "v", "w", "x", "y", "z">>

UpperCase == <<"A", "B", "C", "D", "E", "F", "G", "H", "I", "J", "K", "L",
    "M", "N", "O", "P", "Q", "R", "S", "T", "U", "V", "W", "X", "Y", "Z">>

\* The position of character c in an alphabet, 0 when it is not in it.
Position(c, alphabet) ==
    IF \E k \in 1..Len(alphabet) : alphabet[k] = c
    THEN CHOOSE k \in 1..Len(alphabet) : alphabet[k] = c
    ELSE 0

\* Character c with the letters of alphabet from replaced by those of to.
MapChar(c, from, to) ==
    IF Position(c, from) > 0 THEN to[Position(c, from)] ELSE c

\* String s from position k on, with every character mapped.
RECURSIVE MapFrom(_, _, _, _)
MapFrom(s, k, from, to) ==
    IF k > Len(s) THEN <<>>
    ELSE <<MapChar(s[k], from, to)>> \o MapFrom(s, k + 1, from, to)

\* String.prototype.toUpperCase, on the characters the model uses.
toUpperCase(s) == MapFrom(s, 1, LowerCase, UpperCase)

\* String.prototype.toLowerCase, on the characters the model uses.
toLowerCase(s) == MapFrom(s, 1, UpperCase, LowerCase)

\* .replace(/-/g, '_')
ReplaceHyphens(s) == MapFrom(s, 1, <<"-">>, <<"_">>)

\* String.prototype.includes
includes(s, t) ==
    \E i \in 0..(Len(s) - Len(t)) :
        \A k \in 1..Len(t) : s[i + k] = t[k]

\* The keys of INTENTS, spelled out.
IntentName ==
    [BUY_NOW |-> <<"B", "U", "Y", "_", "N", "O", "W">>, COMPARE |-> <<"C",
        "O", "M", "P", "A", "R", "E">>,
     USE_CASE |-> <<"U", "S", "E", "_", "C", "A", "S", "E">>,
         BUDGET |-> <<"B", "U", "D", "G", "E", "T">>,
     DEFAULT |-> <<"D", "E", "F", "A", "U", "L", "T">>]

\* value.toUpperCase().replace(/-/g, '_') looked up in INTENTS: the intent,
\* or None when INTENTS has no such key.
LookupIntent(value) ==
    LET intentKey == ReplaceHyphens(toUpperCase(value))
    IN  IF \E i \in IntentSet : IntentName[i] = intentKey
        THEN CHOOSE i \in IntentSet : IntentName[i] = intentKey
        ELSE None

\* UTM_CAMPAIGN_MAP, in the order of Object.entries.
UTM_CAMPAIGN_MAP ==
    <<[keyword |-> <<"p", "u", "r", "c", "h", "a", "s", "e">>,
        intent |-> "BUY_NOW"],
      [keyword |-> <<"b", "u", "y">>, intent |-> "BUY_NOW"],
      [keyword |-> <<"s", "a", "l", "e">>, intent |-> "BUY_NOW"],
      [keyword |-> <<"p", "r", "o", "m", "o">>, intent |-> "BUY_NOW"],
      [keyword |-> <<"c", "o", "m", "p", "a", "r", "i", "s", "o", "n">>,
          intent |-> "COMPARE"],
      [keyword |-> <<"c", "o", "m", "p", "a", "r", "e">>,
          intent |-> "COMPARE"],
      [keyword |-> <<"r", "e", "v", "i", "e", "w">>, intent |-> "COMPARE"],
      [keyword |-> <<"b", "e", "s", "t", "_", "o", "f">>,
          intent |-> "COMPARE"],
      [keyword |-> <<"g", "a", "m", "i", "n", "g">>, intent |-> "USE_CASE"],
      [keyword |-> <<"d", "e", "s", "i", "g", "n">>, intent |-> "USE_CASE"],
      [keyword |-> <<"o", "f", "f", "i", "c", "e">>, intent |-> "USE_CASE"],
      [keyword |-> <<"w", "o", "r", "k">>, intent |-> "USE_CASE"],
      [keyword |-> <<"b", "u", "d", "g", "e", "t">>, intent |-> "BUDGET"],
      [keyword |-> <<"d", "e", "a", "l", "s">>, intent |-> "BUDGET"],
      [keyword |-> <<"s", "a", "v", "i", "n", "g", "s">>, intent |-> "BUDGET"],
      [keyword |-> <<"v", "a", "l", "u", "e">>, intent |-> "BUDGET"]>>

\* QUERY_KEYWORDS, flattened in the order of its two nested loops.
QUERY_KEYWORDS ==
    <<[intent |-> "BUY_NOW", kw |-> <<"b", "u", "y">>],
      [intent |-> "BUY_NOW", kw |-> <<"p", "u", "r", "c", "h", "a", "s",
          "e">>],
      [intent |-> "BUY_NOW", kw |-> <<"o", "r", "d", "e", "r">>],
      [intent |-> "BUY_NOW", kw |-> <<"s", "h", "o", "p">>],
      [intent |-> "BUY_NOW", kw |-> <<"a", "d", "d", " ", "t", "o", " ", "c",
          "a", "r", "t">>],
      [intent |-> "BUY_NOW", kw |-> <<"c", "h", "e", "c", "k", "o", "u",
          "t">>],
      [intent |-> "BUY_NOW", kw |-> <<"g", "e", "t">>],
      [intent |-> "BUY_NOW", kw |-> <<"d", "e", "a", "l">>],
      [intent |-> "BUY_NOW", kw |-> <<"s", "a", "l", "e">>],
      [intent |-> "BUY_NOW", kw |-> <<"d", "i", "s", "c", "o", "u", "n",
          "t">>],
      [intent |-> "COMPARE", kw |-> <<"c", "o", "m", "p", "a", "r", "e">>],
      [intent |-> "COMPARE", kw |-> <<"c", "o", "m", "p", "a", "r", "i", "s",
          "o", "n">>],
      [intent |-> "COMPARE", kw |-> <<"v", "s">>],
      [intent |-> "COMPARE", kw |-> <<"v", "e", "r", "s", "u", "s">>],
      [intent |-> "COMPARE", kw |-> <<"b", "e", "s", "t">>],
      [intent |-> "COMPARE", kw |-> <<"t", "o", "p">>],
      [intent |-> "COMPARE", kw |-> <<"r", "e", "v", "i", "e", "w">>],
      [intent |-> "COMPARE", kw |-> <<"r", "a", "t", "i", "n", "g">>],
      [intent |-> "COMPARE", kw |-> <<"b", "e", "n", "c", "h", "m", "a", "r",
          "k">>],
      [intent |-> "USE_CASE", kw |-> <<"g", "a", "m", "i", "n", "g">>],
      [intent |-> "USE_CASE", kw |-> <<"d", "e", "s", "i", "g", "n">>],
      [intent |-> "USE_CASE", kw |-> <<"c", "o", "d", "i", "n", "g">>],
      [intent |-> "USE_CASE", kw |-> <<"o", "f", "f", "i", "c", "e">>],
      [intent |-> "USE_CASE", kw |-> <<"w", "o", "r", "k">>],
      [intent |-> "USE_CASE", kw |-> <<"c", "r", "e", "a", "t", "i", "v",
          "e">>],
      [intent |-> "USE_CASE", kw |-> <<"v", "i", "d", "e", "o", " ", "e",
          "d", "i", "t", "i", "n", "g">>],
      [intent |-> "USE_CASE", kw |-> <<"s", "t", "r", "e", "a", "m", "i",
          "n", "g">>],
      [intent |-> "USE_CASE", kw |-> <<"p", "r", "o", "g", "r", "a", "m",
          "m", "i", "n", "g">>],
      [intent |-> "BUDGET", kw |-> <<"c", "h", "e", "a", "p">>],
      [intent |-> "BUDGET", kw |-> <<"a", "f", "f", "o", "r", "d", "a", "b",
          "l", "e">>],
      [intent |-> "BUDGET", kw |-> <<"b", "u", "d", "g", "e", "t">>],
      [intent |-> "BUDGET", kw |-> <<"u", "n", "d", "e", "r">>],
      [intent |-> "BUDGET", kw |-> <<"p", "r", "i", "c", "e">>],
      [intent |-> "BUDGET", kw |-> <<"v", "a", "l", "u", "e">>],
      [intent |-> "BUDGET", kw |-> <<"l", "o", "w", " ", "c", "o", "s", "t">>],
      [intent |-> "BUDGET", kw |-> <<"i", "n", "e", "x", "p", "e", "n", "s",
          "i", "v", "e">>],
      [intent |-> "BUDGET", kw |-> <<"s", "a", "v", "e">>]>>

\* REFERRER_PATTERNS, in the order of Object.entries; weights in hundredths.
REFERRER_PATTERNS ==
    <<[pattern |-> <<"g", "o", "o", "g", "l", "e", ".", "c", "o", "m", "/",
        "s", "e", "a", "r", "c", "h">>, intent |-> "COMPARE", weight |-> 30],
      [pattern |-> <<"b", "i", "n", "g", ".", "c", "o", "m", "/", "s", "e",
          "a", "r", "c", "h">>, intent |-> "COMPARE", weight |-> 30],
      [pattern |-> <<"y", "o", "u", "t", "u", "b", "e", ".", "c", "o", "m">>,
          intent |-> "USE_CASE", weight |-> 25],
      [pattern |-> <<"r", "e", "d", "d", "i", "t", ".", "c", "o", "m">>,
          intent |-> "COMPARE", weight |-> 25],
      [pattern |-> <<"f", "a", "c", "e", "b", "o", "o", "k", ".", "c", "o",
          "m">>, intent |-> "DEFAULT", weight |-> 15],
      [pattern |-> <<"i", "n", "s", "t", "a", "g", "r", "a", "m", ".", "c",
          "o", "m">>, intent |-> "DEFAULT", weight |-> 15],
      [pattern |-> <<"t", "w", "i", "t", "t", "e", "r", ".", "c", "o", "m">>,
          intent |-> "DEFAULT", weight |-> 15],
      [pattern |-> <<"x", ".", "c", "o", "m">>, intent |-> "DEFAULT",
          weight |-> 15],
      [pattern |-> <<"t", "i", "k", "t", "o", "k", ".", "c", "o", "m">>,
          intent |-> "DEFAULT", weight |-> 15],
      [pattern |-> <<"e", "m", "a", "i", "l">>, intent |-> "BUY_NOW",
          weight |-> 20],
      [pattern |-> <<"s", "l", "i", "c", "k", "d", "e", "a", "l", "s", ".",
          "n", "e", "t">>, intent |-> "BUDGET", weight |-> 35],
      [pattern |-> <<"r", "t", "i", "n", "g", "s", ".", "c", "o", "m">>,
          intent |-> "COMPARE", weight |-> 35],
      [pattern |-> <<"p", "c", "p", "a", "r", "t", "p", "i", "c", "k", "e",
          "r", ".", "c", "o", "m">>, intent |-> "COMPARE", weight |-> 30]>>

\* behaviorMap of detectFromBehavior; weights in hundredths.
behaviorMap ==
    <<[token |-> <<"f", "a", "s", "t", "_", "s", "c", "r", "o", "l", "l">>,
        intent |-> "COMPARE", weight |-> 20],
      [token |-> <<"c", "l", "i", "c", "k", "_", "p", "r", "i", "c", "e">>,
          intent |-> "BUDGET", weight |-> 30],
      [token |-> <<"c", "l", "i", "c", "k", "_", "c", "t", "a">>,
          intent |-> "BUY_NOW", weight |-> 30],
      [token |-> <<"h", "o", "v", "e", "r", "_", "s", "p", "e", "c", "s">>,
          intent |-> "COMPARE", weight |-> 20],
      [token |-> <<"c", "l", "i", "c", "k", "_", "c", "a", "t", "e", "g",
          "o", "r", "y">>, intent |-> "USE_CASE", weight |-> 25]>>

\* queryKeys of detectFromQueryParams, in order.
queryKeys == <<"q", "query", "search", "keyword", "keywords">>

\* One entry of a signals list; the code adds weight to scores[intent] with
\* every entry it pushes.
Signal(type, intent, weight) ==
    [type |-> type, detectedIntent |-> intent, weight |-> weight]

\* The weights of the signals from position k on that name intent.
RECURSIVE WeightFrom(_, _, _)
WeightFrom(signals, intent, k) ==
    IF k > Len(signals) THEN 0
    ELSE (IF signals[k].detectedIntent = intent THEN signals[k].weight ELSE 0)
         + WeightFrom(signals, intent, k + 1)

\* What an extractor returns after pushing signals: { scores, signals }.
Extracted(signals) ==
    [scores |-> [i \in IntentSet |-> WeightFrom(signals, i, 1)],
     signals |-> signals]

\* The UTM campaign loop: every keyword of UTM_CAMPAIGN_MAP the campaign
\* includes pushes a signal of weight 0.6, in the order of the map.
CampaignSignals(campaign) ==
    LET hits == SelectSeq(UTM_CAMPAIGN_MAP,
                          LAMBDA e : includes(campaign, e.keyword))
    IN  [k \in 1..Len(hits) |-> Signal("utm_campaign", hits[k].intent, 60)]

\* The keyword loops for one query text: every keyword of QUERY_KEYWORDS the
\* text includes pushes a signal of weight 0.5.
KeywordSignals(queryText) ==
    LET hits == SelectSeq(QUERY_KEYWORDS,
                          LAMBDA e : includes(queryText, e.kw))
    IN  [k \in 1..Len(hits) |-> Signal("search_query", hits[k].intent, 50)]

\* The search-query loop from query key j on.
RECURSIVE SearchFrom(_, _)
SearchFrom(params, j) ==
    IF j > Len(queryKeys) THEN <<>>
    ELSE (IF params[queryKeys[j]] # <<>>
          THEN KeywordSignals(toLowerCase(params[queryKeys[j]]))
          ELSE <<>>)
         \o SearchFrom(params, j + 1)

\* Mutant of detectFromQueryParams: the UTM campaign analysis is skipped.
detectFromQueryParams_noCampaign(params) ==
    IF params["intent"] # <<>> /\ LookupIntent(params["intent"]) # None
    THEN Extracted(<<Signal("query_param",
                            LookupIntent(params["intent"]), 100)>>)
    ELSE IF params["persona"] # <<>> /\ LookupIntent(params["persona"]) # None
    THEN Extracted(<<Signal("persona_override",
                            LookupIntent(params["persona"]), 100)>>)
    ELSE Extracted(
             (IF /\ params["utm_source"] # <<>>
                 /\ toLowerCase(params["utm_source"])
                        \in {<<"e", "m", "a", "i", "l">>, <<"n", "e", "w",
                            "s", "l", "e", "t", "t", "e", "r">>}
              THEN <<Signal("utm_source", "BUY_NOW", 30)>>
              ELSE <<>>)
             \o SearchFrom(params, 1))

\* Signal 1: detectFromQueryParams(params).  A valid intent= value, and
\* failing that a valid persona= value, returns at once with weight 1.0.
detectFromQueryParams(params) ==
    IF params["intent"] # <<>> /\ LookupIntent(params["intent"]) # None
    THEN Extracted(<<Signal("query_param",
                            LookupIntent(params["intent"]), 100)>>)
    ELSE IF params["persona"] # <<>> /\ LookupIntent(params["persona"]) # None
    THEN Extracted(<<Signal("persona_override",
                            LookupIntent(params["persona"]), 100)>>)
    ELSE Extracted(
             (IF params["utm_campaign"] # <<>>
              THEN CampaignSignals(toLowerCase(params["utm_campaign"]))
              ELSE <<>>)
             \o (IF /\ params["utm_source"] # <<>>
                    /\ toLowerCase(params["utm_source"])
                           \in {<<"e", "m", "a", "i", "l">>, <<"n", "e", "w",
                               "s", "l", "e", "t", "t", "e", "r">>}
                 THEN <<Signal("utm_source", "BUY_NOW", 30)>>
                 ELSE <<>>)
             \o SearchFrom(params, 1))

\* The loop of detectFromReferrer from pattern k: the first pattern the
\* referrer includes gives the one signal.
RECURSIVE ReferrerFrom(_, _)
ReferrerFrom(referrer, k) ==
    IF k > Len(REFERRER_PATTERNS) THEN <<>>
    ELSE IF includes(referrer, REFERRER_PATTERNS[k].pattern)
    THEN <<Signal("referrer", REFERRER_PATTERNS[k].intent,
                  REFERRER_PATTERNS[k].weight)>>
    ELSE ReferrerFrom(referrer, k + 1)

\* Signal 2: detectFromReferrer() on document.referrer.
detectFromReferrer(referrer) ==
    IF referrer = <<>> THEN Extracted(<<>>)
    ELSE Extracted(ReferrerFrom(toLowerCase(referrer), 1))

\* Signal 3: detectFromBehavior(params), the simulated behavior token.
detectFromBehavior(params) ==
    LET hits == SelectSeq(behaviorMap,
                    LAMBDA e : e.token = toLowerCase(params["behavior"]))
    IN  IF params["behavior"] # <<>> /\ Len(hits) > 0
        THEN Extracted(<<Signal("behavior", hits[1].intent, hits[1].weight)>>)
        ELSE Extracted(<<>>)

\* Signal 4: detectFromPersonaToggle(): data-intentflow-persona on the hero
\* container, then on the script tag; '' when the element or the attribute
\* is missing.
detectFromPersonaToggle(heroPersona, scriptPersona) ==
    Extracted(
        (IF heroPersona # <<>> /\ LookupIntent(heroPersona) # None
         THEN <<Signal("persona_toggle", LookupIntent(heroPersona), 100)>>
         ELSE <<>>)
        \o (IF scriptPersona # <<>> /\ LookupIntent(scriptPersona) # None
            THEN <<Signal("script_persona", LookupIntent(scriptPersona),
                          100)>>
            ELSE <<>>))

\* Signal 5: detectFromDeviceType()
detectFromDeviceType(isTouchDevice, screenWidth) ==
    IF isTouchDevice /\ screenWidth < 768
    THEN Extracted(<<Signal("device_type", "COMPARE", 15)>>)
    ELSE IF isTouchDevice /\ screenWidth < 1200
    THEN Extracted(<<Signal("device_type", "USE_CASE", 10)>>)
    ELSE Extracted(<<Signal("device_type", "BUY_NOW", 15)>>)

\* Signal 6: detectFromTimeOfDay() at local hour hour.
detectFromTimeOfDay(hour) ==
    IF hour >= 6 /\ hour < 9
    THEN Extracted(<<Signal("time_of_day", "COMPARE", 10)>>)
    ELSE IF hour >= 9 /\ hour < 17
    THEN Extracted(<<Signal("time_of_day", "USE_CASE", 12)>>)
    ELSE IF hour >= 17 /\ hour < 21
    THEN Extracted(<<Signal("time_of_day", "BUY_NOW", 12)>>)
    ELSE Extracted(<<Signal("time_of_day", "BUDGET", 10)>>)

\* Signal 7: detectFromScreenSize()
detectFromScreenSize(viewportWidth, pixelRatio, screenWidth) ==
    LET effectiveResolution == screenWidth * pixelRatio
    IN  IF effectiveResolution >= 3840
        THEN Extracted(<<Signal("screen_size", "USE_CASE", 15)>>)
        ELSE IF effectiveResolution >= 2560
        THEN Extracted(<<Signal("screen_size", "COMPARE", 10)>>)
        ELSE IF viewportWidth <= 480
        THEN Extracted(<<Signal("screen_size", "BUDGET", 10)>>)
        ELSE Extracted(<<Signal("screen_size", "DEFAULT", 5)>>)

\* The seven extractor results of detect(), in its order.
Extract(ctx) ==
    <<detectFromQueryParams(ctx.params),
      detectFromReferrer(ctx.referrer),
      detectFromBehavior(ctx.params),
      detectFromPersonaToggle(ctx.heroPersona, ctx.scriptPersona),
      detectFromDeviceType(ctx.isTouchDevice, ctx.screenWidth),
      detectFromTimeOfDay(ctx.hour),
      detectFromScreenSize(ctx.innerWidth, ctx.devicePixelRatio,
                           ctx.screenWidth)>>

\* [].concat(...) of the signal lists from result k on.
RECURSIVE ConcatSignals(_, _)
ConcatSignals(results, k) ==
    IF k > Len(results) THEN <<>>
    ELSE results[k].signals \o ConcatSignals(results, k + 1)

\* The return value of detect() for the extractor results and the result of
\* their aggregation.
Detected(results, result) ==
    [null |-> FALSE,
     intent |-> result.intent,
     confidence |-> result.confidence,
     scores |-> result.scores,
     signals |-> ConcatSignals(results, 1),
     signalsGiven |-> TRUE]

\* The score vectors of the extractor results, in order.
ScoresOf(results) == [k \in 1..Len(results) |-> results[k].scores]

\* detect(): the intent result of the page context ctx.
detect(ctx) ==
    LET results == Extract(ctx)
    IN  Detected(results, aggregateScores(ScoresOf(results)))

(***************************************************************************)
(* Decision Engine and personalize()                                       *)
(***************************************************************************)

\* getFallbackTemplates(): the templates in the order of the object literal
\* (the for-in order of selectTemplate); name and cssClass follow from id.
FallbackTemplates ==
    [loaded |-> TRUE, hasTemplates |-> TRUE,
     templates |->
        <<[key |-> "hero-impact", id |-> "hero-impact",
           intents |-> {"BUY_NOW", "USE_CASE"}],
          [key |-> "hero-comparison", id |-> "hero-comparison",
           intents |-> {"COMPARE"}],
          [key |-> "hero-value", id |-> "hero-value",
           intents |-> {"BUDGET"}]>>,
     defaultTemplate |-> "hero-impact"]

\* getFallbackAssets(): the intents that have a content entry.  Every image
\* and badge key of a content entry resolves; the images and badges tables
\* are not modelled.
FallbackAssets == [loaded |-> TRUE, hasContent |-> TRUE, content |-> IntentSet]

\* Template registries out of registry/templates.json: two templates that
\* list the same intent; a defaultTemplate that names no template; no
\* defaultTemplate field; a document without a templates field.
SharedIntentTemplates ==
    [loaded |-> TRUE, hasTemplates |-> TRUE,
     templates |->
        <<[key |-> "hero-a", id |-> "hero-a", intents |-> {"COMPARE"}],
          [key |-> "hero-b", id |-> "hero-b",
           intents |-> {"COMPARE", "BUDGET"}]>>,
     defaultTemplate |-> "hero-b"]

MissingDefaultTemplates ==
    [loaded |-> TRUE, hasTemplates |-> TRUE,
     templates |->
        <<[key |-> "hero-comparison", id |-> "hero-comparison",
           intents |-> {"COMPARE"}]>>,
     defaultTemplate |-> "hero-classic"]

NoDefaultFieldTemplates ==
    [loaded |-> TRUE, hasTemplates |-> TRUE,
     templates |->
        <<[key |-> "hero-value", id |-> "hero-value",
           intents |-> {"BUDGET"}],
          [key |-> "hero-impact", id |-> "hero-impact",
           intents |-> {"BUY_NOW"}]>>,
     defaultTemplate |-> None]

NoTemplatesField ==
    [loaded |-> TRUE, hasTemplates |-> FALSE, templates |-> <<>>,
     defaultTemplate |-> None]

\* Asset registries out of registry/assets.json: content for two intents
\* only; content without a DEFAULT entry.
PartialAssets ==
    [loaded |-> TRUE, hasContent |-> TRUE, content |-> {"DEFAULT", "COMPARE"}]

NoDefaultAssets ==
    [loaded |-> TRUE, hasContent |-> TRUE, content |-> {"BUY_NOW"}]

\* The (templates, assets) pairs DecisionEngine.init is called with.
Registries ==
    {<<FallbackTemplates, FallbackAssets>>,
     <<SharedIntentTemplates, FallbackAssets>>,
     <<MissingDefaultTemplates, FallbackAssets>>,
     <<NoDefaultFieldTemplates, PartialAssets>>,
     <<NoTemplatesField, NoDefaultAssets>>}

\* The for-in loop of selectTemplate from template k: the position of the
\* first template whose intents contain intent, 0 when none does.
RECURSIVE FirstMatchFrom(_, _, _)
FirstMatchFrom(templates, intent, k) ==
    IF k > Len(templates) THEN 0
    ELSE IF intent \in templates[k].intents THEN k
    ELSE FirstMatchFrom(templates, intent, k + 1)

\* Mutant of selectTemplate: the last matching template is taken.
selectTemplate_lastMatch(registry, intent) ==
    IF ~registry.loaded \/ ~registry.hasTemplates
    THEN [threw |-> FALSE, template |-> NoTemplate,
          reason |-> "registry_not_loaded"]
    ELSE LET matches == {k \in 1..Len(registry.templates) :
                            intent \in registry.templates[k].intents}
             defaultKey == IF registry.defaultTemplate # None
                           THEN registry.defaultTemplate ELSE "hero-impact"
             defaults == {k \in 1..Len(registry.templates) :
                             registry.templates[k].key = defaultKey}
         IN  IF matches # {}
             THEN [threw |-> FALSE,
                   template |-> registry.templates[
                       CHOOSE k \in matches : \A m \in matches : m <= k],
                   reason |-> "optimized_for_intent"]
             ELSE IF defaults # {}
             THEN [threw |-> FALSE,
                   template |->
                       registry.templates[CHOOSE k \in defaults : TRUE],
                   reason |-> "using_default"]
             ELSE [threw |-> TRUE, template |-> NoTemplate, reason |-> None]

\* selectTemplate(intent).  Without a registry the result carries no
\* template.  When no template matches, bestMatch is
\* templates[defaultTemplate || 'hero-impact']; reading bestMatch.name
\* throws a TypeError when there is no such template.
selectTemplate(registry, intent) ==
    IF ~registry.loaded \/ ~registry.hasTemplates
    THEN [threw |-> FALSE, template |-> NoTemplate,
          reason |-> "registry_not_loaded"]
    ELSE LET first == FirstMatchFrom(registry.templates, intent, 1)
             defaultKey == IF registry.defaultTemplate # None
                           THEN registry.defaultTemplate ELSE "hero-impact"
             defaults == {k \in 1..Len(registry.templates) :
                             registry.templates[k].key = defaultKey}
         IN  IF first > 0
             THEN [threw |-> FALSE, template |-> registry.templates[first],
                   reason |-> "optimized_for_intent"]
             ELSE IF defaults # {}
             THEN [threw |-> FALSE,
                   template |->
                       registry.templates[CHOOSE k \in defaults : TRUE],
                   reason |-> "using_default"]
             ELSE [threw |-> TRUE, template |-> NoTemplate, reason |-> None]

\* selectContent(intent): the content entry used and the reason.  Without a
\* registry the built-in content is returned; content.image throws a
\* TypeError when the registry has neither the intent's entry nor DEFAULT.
selectContent(assets, intent) ==
    IF ~assets.loaded \/ ~assets.hasContent
    THEN [threw |-> FALSE, content |-> "built-in",
          reason |-> "asset_registry_not_loaded"]
    ELSE IF intent \in assets.content
    THEN [threw |-> FALSE, content |-> intent, reason |-> "content_matched"]
    ELSE IF "DEFAULT" \in assets.content
    THEN [threw |-> FALSE, content |-> "DEFAULT",
          reason |-> "using_default_content"]
    ELSE [threw |-> TRUE, content |-> None, reason |-> None]

\* s.type of every signal.
SignalTypes(signals) == [k \in 1..Len(signals) |-> signals[k].type]

\* buildExplanation(intentResult, templateResult, contentResult): the parts
\* the text is concatenated from.  percent is
\* Math.round(intentResult.confidence * 100).
buildExplanation(result, templateResult, contentResult) ==
    IF result.signalsGiven /\ Len(result.signals) > 0
    THEN [signalCount |-> Len(result.signals),
          intent |-> result.intent,
          percent |-> (result.confidence + 50) \div 100,
          signals |-> SignalTypes(result.signals),
          template |-> templateResult.reason,
          content |-> contentResult.reason]
    ELSE [signalCount |-> 0, intent |-> None, percent |-> 0,
          signals |-> <<>>,
          template |-> templateResult.reason,
          content |-> contentResult.reason]

\* The outcome of a decide call that threw.
Thrown ==
    [error |-> "TypeError", intent |-> None, confidence |-> 0,
     template |-> None, content |-> None, reason |-> NoReason,
     signals_used |-> <<>>, signal_details |-> <<>>, intent_scores |-> <<>>,
     timestamp |-> 0, fallback_used |-> FALSE]

\* Mutant of decide: fallback_used looks at the intent only.
decide_fallbackByIntent(given, templates, assets, t) ==
    LET result == IF given.null
                  THEN [null |-> FALSE, intent |-> "DEFAULT",
                        confidence |-> ConfidenceOne \div 2, scores |-> <<>>,
                        signals |-> <<>>, signalsGiven |-> TRUE]
                  ELSE given
        intent == IF result.intent # None THEN result.intent ELSE "DEFAULT"
        templateResult == selectTemplate(templates, intent)
        contentResult == selectContent(assets, intent)
    IN  IF templateResult.threw \/ contentResult.threw THEN Thrown
        ELSE [error |-> None,
              intent |-> intent,
              confidence |-> IF result.confidence # 0 THEN result.confidence
                             ELSE ConfidenceOne \div 2,
              template |-> IF templateResult.template # NoTemplate
                           THEN templateResult.template.id
                           ELSE "hero-impact",
              content |-> contentResult.content,
              reason |-> buildExplanation(result, templateResult,
                                          contentResult),
              signals_used |-> IF result.signalsGiven
                               THEN SignalTypes(result.signals) ELSE <<>>,
              signal_details |-> IF result.signalsGiven
                                 THEN result.signals ELSE <<>>,
              intent_scores |-> result.scores,
              timestamp |-> t,
              fallback_used |-> intent = "DEFAULT"]

\* Mutant of decide: the explanation carries the time of the call.
decide_timeInReason(given, templates, assets, t) ==
    LET result == IF given.null
                  THEN [null |-> FALSE, intent |-> "DEFAULT",
                        confidence |-> ConfidenceOne \div 2, scores |-> <<>>,
                        signals |-> <<>>, signalsGiven |-> TRUE]
                  ELSE given
        intent == IF result.intent # None THEN result.intent ELSE "DEFAULT"
        templateResult == selectTemplate(templates, intent)
        contentResult == selectContent(assets, intent)
    IN  IF templateResult.threw \/ contentResult.threw THEN Thrown
        ELSE [error |-> None,
              intent |-> intent,
              confidence |-> IF result.confidence # 0 THEN result.confidence
                             ELSE ConfidenceOne \div 2,
              template |-> IF templateResult.template # NoTemplate
                           THEN templateResult.template.id
                           ELSE "hero-impact",
              content |-> contentResult.content,
              reason |-> [buildExplanation(result, templateResult,
                                           contentResult)
                             EXCEPT !.percent = t],
              signals_used |-> IF result.signalsGiven
                               THEN SignalTypes(result.signals) ELSE <<>>,
              signal_details |-> IF result.signalsGiven
                                 THEN result.signals ELSE <<>>,
              intent_scores |-> result.scores,
              timestamp |-> t,
              fallback_used |->
                  /\ intent = "DEFAULT"
                  /\ (~result.signalsGiven \/ Len(result.signals) = 0)]

\* decide(intentResult) at time t, with the registries of the engine: the
\* decision, or Thrown when selectTemplate or selectContent throws.
decide(given, templates, assets, t) ==
    LET result == IF given.null
                  THEN [null |-> FALSE, intent |-> "DEFAULT",
                        confidence |-> ConfidenceOne \div 2, scores |-> <<>>,
                        signals |-> <<>>, signalsGiven |-> TRUE]
                  ELSE given
        intent == IF result.intent # None THEN result.intent ELSE "DEFAULT"
        templateResult == selectTemplate(templates, intent)
        contentResult == selectContent(assets, intent)
    IN  IF templateResult.threw \/ contentResult.threw THEN Thrown
        ELSE [error |-> None,
              intent |-> intent,
              confidence |-> IF result.confidence # 0 THEN result.confidence
                             ELSE ConfidenceOne \div 2,
              template |-> IF templateResult.template # NoTemplate
                           THEN templateResult.template.id
                           ELSE "hero-impact",
              content |-> contentResult.content,
              reason |-> buildExplanation(result, templateResult,
                                          contentResult),
              signals_used |-> IF result.signalsGiven
                               THEN SignalTypes(result.signals) ELSE <<>>,
              signal_details |-> IF result.signalsGiven
                                 THEN result.signals ELSE <<>>,
              intent_scores |-> result.scores,
              timestamp |-> t,
              fallback_used |->
                  /\ intent = "DEFAULT"
                  /\ (~result.signalsGiven \/ Len(result.signals) = 0)]

\* Mutant of SyntheticResult: the override is scored like a detected signal.
SyntheticResult_scored(intent) ==
    [null |-> FALSE,
     intent |-> intent,
     confidence |-> Confidence(100, 100 + 5),
     scores |-> [i \in {intent} |-> 100],
     signals |-> <<[type |-> "preview_override", detectedIntent |-> intent,
                    weight |-> 100],
                   [type |-> "screen_size", detectedIntent |-> "DEFAULT",
                    weight |-> 5]>>,
     signalsGiven |-> TRUE]

\* personalize, step 1 with an override: the synthetic intent result.
SyntheticResult(intent) ==
    [null |-> FALSE,
     intent |-> intent,
     confidence |-> ConfidenceOne,
     scores |-> [i \in {intent} |-> 100],
     signals |-> <<[type |-> "preview_override", detectedIntent |-> intent,
                    weight |-> 100]>>,
     signalsGiven |-> TRUE]

\* The signal list that goes with the score vectors from position k on: an
\* extractor pushes one signal with every weight it adds to its vector.
RECURSIVE SignalsFrom(_, _)
SignalsFrom(scoreSets, k) ==
    IF k > Len(scoreSets) THEN <<>>
    ELSE (IF scoreSets[k] = ZeroScores THEN <<>>
          ELSE LET i == CHOOSE j \in IntentSet : scoreSets[k][j] > 0
               IN  <<[type |-> "signal", detectedIntent |-> i,
                      weight |-> scoreSets[k][i]]>>)
         \o SignalsFrom(scoreSets, k + 1)

\* The return value of detect() for the score vectors scoreSets and the
\* result of their aggregation.
ScoredResult(scoreSets, result) ==
    [null |-> FALSE,
     intent |-> result.intent,
     confidence |-> result.confidence,
     scores |-> result.scores,
     signals |-> SignalsFrom(scoreSets, 1),
     signalsGiven |-> TRUE]

\* An extractor's score vector joins the list.
PushScores(scoreSet) ==
    /\ aggregated = NotAggregated
    /\ Len(allScores) < MaxVectors
    /\ allScores' = Append(allScores, scoreSet)
    /\ UNCHANGED aggregated

\* const result = aggregateScores(allScores)
Aggregate ==
    /\ aggregated = NotAggregated
    /\ aggregated' = aggregateScores(allScores)
    /\ UNCHANGED allScores

\* aggregateScores runs inside detect(), which personalize() calls once the
\* registries are loaded: here the embedded ones.
InitAgg ==
    /\ InitScorerState
    /\ InitPageState
    /\ InitObserverState
    /\ context = <<>>
    /\ templateRegistry = FallbackTemplates
    /\ assetRegistry = FallbackAssets
    /\ lastIntentResult = <<>>
    /\ decision = NoDecision
    /\ decidedWith = <<>>
    /\ storage = EmptyState
    /\ abEnabledFlag = FALSE
    /\ urlAbParam = FALSE
    /\ returned = [i \in IntentSet |-> None]
    /\ lastCall = NoCall

\* const decision = IF.DecisionEngine.decide(intentResult) on the result of
\* the aggregation.
DecideAggregated ==
    /\ aggregated # NotAggregated
    /\ decision = NoDecision
    /\ lastIntentResult' = <<ScoredResult(allScores, aggregated)>>
    /\ decision' = <<decide(ScoredResult(allScores, aggregated),
                            templateRegistry, assetRegistry, now)>>
    /\ decidedWith' = <<templateRegistry, assetRegistry, FALSE>>
    /\ UNCHANGED <<context, templateRegistry, assetRegistry>>

NextAgg ==
    \/ \E scoreSet \in ScoreSets :
          /\ PushScores(scoreSet)
          /\ UNCHANGED <<abVars, obsVars, pipeVars, pageVars>>
    \/ Aggregate /\ UNCHANGED <<abVars, obsVars, pipeVars, pageVars>>
    \/ DecideAggregated /\ UNCHANGED <<abVars, obsVars, aggVars, pageVars>>

SpecAgg == InitAgg /\ [][NextAgg]_vars

\* Bound: the personalize() calls of a run of the detection and decision
\* specifications.
MaxPersonalize == 1

\* A decide call on given with the registries templates and assets repeats
\* the call before it: same intent result, same registries.
Repeated(given, templates, assets) ==
    /\ decision # NoDecision
    /\ lastIntentResult = <<given>>
    /\ decidedWith[1] = templates
    /\ decidedWith[2] = assets

\* DecisionEngine.init(templates, assets)
DecisionEngineInit(templates, assets) ==
    /\ templateRegistry' = templates
    /\ assetRegistry' = assets
    /\ UNCHANGED <<context, lastIntentResult, decision, decidedWith>>

\* DecisionEngine.decide(given), called through the exported API.
DecideCall(given) ==
    /\ lastIntentResult' = <<given>>
    /\ decision' = <<decide(given, templateRegistry, assetRegistry, now)>>
    /\ decidedWith' = <<templateRegistry, assetRegistry,
                        Repeated(given, templateRegistry, assetRegistry)>>
    /\ UNCHANGED <<context, templateRegistry, assetRegistry>>

\* Mutant of personalizeResult: detection runs whatever the override.
personalizeResult_alwaysDetect(override, ctx) == detect(ctx)

\* personalize, step 1: override && override.intent selects the synthetic
\* result; None is a missing override or one without intent.
personalizeResult(override, ctx) ==
    IF override # None THEN SyntheticResult(override) ELSE detect(ctx)

\* The steps of personalize(override) on a page of context ctx, the engine
\* holding the registries templates and assets: detection or the override,
\* decide, the A/B overlay when exploration is enabled, the decision_made
\* record and IF._lastDecision.  The hero container carries no
\* data-intentflow-page attribute (page type 'homepage': no page overrides).
\* A TypeError thrown by decide leaves personalize before its later steps.
PersonalizeSteps(override, ctx, templates, assets) ==
    \E given \in {personalizeResult(override, ctx)} :
    \E made \in {decide(given, templates, assets, now)} :
        /\ context' = IF override = None THEN <<ctx>> ELSE context
        /\ lastIntentResult' = <<given>>
        /\ decision' = <<made>>
        /\ decidedWith' = <<templates, assets,
                            Repeated(given, templates, assets)>>
        /\ IF made.error # None
           THEN UNCHANGED <<abVars, lastDecision, lastCycle, eventCounts>>
           ELSE /\ IF isEnabled
                   THEN ApplyVariant(made.intent)
                   ELSE UNCHANGED abVars
                /\ lastCycle' = [override |-> override,
                                 intent |-> made.intent,
                                 detected |-> override = None]
                /\ lastDecision' = made.intent
                /\ eventCounts' = [eventCounts EXCEPT !.decision_made = @ + 1]

\* IntentFlow.personalize(override), called on a page without query string,
\* referrer or persona attribute.
Personalize(override) ==
    /\ eventCounts.decision_made < MaxPersonalize
    /\ PersonalizeSteps(override, BlankContext, templateRegistry,
                        assetRegistry)
    /\ UNCHANGED <<templateRegistry, assetRegistry, now,
                   isInitialized, observerStarted, initTime,
                   lastRePersonalizationTime, behaviorScores,
                   currentSessionIntent, observedActions, sdkState>>

\* The callback of loadRegistries when both requests failed:
\* DecisionEngine.init on the embedded registries, then personalize().
EmbeddedRegistriesLoaded(ctx) ==
    /\ sdkState = "loading"
    /\ sdkState' = "ready"
    /\ templateRegistry' = FallbackTemplates
    /\ assetRegistry' = FallbackAssets
    /\ PersonalizeSteps(None, ctx, FallbackTemplates, FallbackAssets)
    /\ UNCHANGED <<now, isInitialized, observerStarted, initTime,
                   lastRePersonalizationTime, behaviorScores,
                   currentSessionIntent, observedActions>>

\* Time passes between two calls of the Decision Engine.
ClockAdvance ==
    /\ now + TickMs <= StartTime + MaxTicks * TickMs
    /\ now' = now + TickMs
    /\ UNCHANGED <<isInitialized, observerStarted, initTime,
                   lastRePersonalizationTime, behaviorScores,
                   currentSessionIntent, observedActions, lastDecision,
                   lastCycle, eventCounts, sdkState>>

(***************************************************************************)
(* SpecDetect: personalize() over bounded page contexts                    *)
(***************************************************************************)

\* A query string with the given parameters, '' for each one left out.
Query(intent, persona, campaign, source, q) ==
    [NoParams EXCEPT !["intent"] = intent, !["persona"] = persona,
                     !["utm_campaign"] = campaign, !["utm_source"] = source,
                     !["q"] = q]

\* The query strings of the model, each without and with a behavior token.
Queries ==
    {Query(<<>>, <<>>, <<>>, <<>>, <<>>),
     Query(<<"b", "u", "y", "-", "n", "o", "w">>, <<>>, <<>>, <<>>, <<>>),
     Query(<<"c", "o", "m", "p", "a", "r", "e">>, <<>>, <<>>, <<>>, <<>>),
     Query(<<"U", "S", "E", "_", "C", "A", "S", "E">>, <<>>, <<>>, <<>>, <<>>),
     Query(<<"b", "u", "d", "g", "e", "t">>, <<>>, <<>>, <<>>, <<>>),
     Query(<<"d", "e", "f", "a", "u", "l", "t">>, <<>>, <<>>, <<>>, <<>>),
     Query(<<"b", "o", "g", "u", "s">>, <<>>, <<>>, <<>>, <<>>),
     Query(<<"b", "u", "d", "g", "e", "t">>, <<"c", "o", "m", "p", "a", "r",
         "e">>, <<"c", "o", "m", "p", "a", "r", "i", "s", "o", "n">>, <<"e",
         "m", "a", "i", "l">>, <<"b", "e", "s", "t", " ", "b", "u", "y">>),
     Query(<<>>, <<"b", "u", "d", "g", "e", "t">>, <<>>, <<>>, <<>>),
     Query(<<"b", "o", "g", "u", "s">>, <<"u", "s", "e", "-", "c", "a", "s",
         "e">>, <<>>, <<>>, <<>>),
     Query(<<>>, <<>>, <<"c", "o", "m", "p", "a", "r", "i", "s", "o", "n">>,
         <<>>, <<>>),
     Query(<<>>, <<>>, <<"C", "o", "m", "p", "a", "r", "e", "_", "R", "e",
         "v", "i", "e", "w">>, <<>>, <<>>),
     Query(<<>>, <<>>, <<"c", "o", "m", "p", "a", "r", "i", "s", "o", "n">>,
         <<"N", "e", "w", "s", "l", "e", "t", "t", "e", "r">>, <<>>),
     Query(<<>>, <<>>, <<>>, <<"e", "m", "a", "i", "l">>, <<>>),
     Query(<<>>, <<>>, <<>>, <<>>, <<"b", "e", "s", "t", " ", "c", "h", "e",
         "a", "p", " ", "m", "o", "n", "i", "t", "o", "r">>)}

BehaviorTokens == {<<>>, <<"c", "l", "i", "c", "k", "_", "c", "t", "a">>}

Referrers ==
    {<<>>,
     <<"h", "t", "t", "p", "s", ":", "/", "/", "w", "w", "w", ".", "g", "o",
         "o", "g", "l", "e", ".", "c", "o", "m", "/", "s", "e", "a", "r",
         "c", "h", "?", "q", "=", "x">>,
     <<"h", "t", "t", "p", "s", ":", "/", "/", "w", "w", "w", ".", "f", "a",
         "c", "e", "b", "o", "o", "k", ".", "c", "o", "m", "/">>,
     <<"h", "t", "t", "p", "s", ":", "/", "/", "s", "l", "i", "c", "k", "d",
         "e", "a", "l", "s", ".", "n", "e", "t", "/", "d", "e", "a", "l",
         "s">>}

HeroPersonas == {<<>>, <<"b", "u", "y", "-", "n", "o", "w">>, <<"d", "e",
    "f", "a", "u", "l", "t">>}

ScriptPersonas == {<<>>, <<"c", "o", "m", "p", "a", "r", "e">>}

\* Displays: touch, screen.width, devicePixelRatio, innerWidth.  Every device
\* class (mobile below 768, tablet below 1200, desktop) meets every
\* resolution class (small, standard, QHD, 4K+).
Displays ==
    {<<touch[1], touch[2], view[1], view[2]>> :
        touch \in {<<TRUE, 767>>, <<TRUE, 768>>, <<FALSE, 767>>},
        view \in {<<1, 480>>, <<1, 481>>, <<4, 481>>, <<6, 481>>}}
    \cup {<<TRUE, 1199, 1, 481>>, <<TRUE, 1200, 1, 481>>}

\* Local hours: the first hour of each of the four time slots.
Hours == {6, 9, 17, 21}

Contexts ==
    {[params |-> [q EXCEPT !["behavior"] = b], referrer |-> r,
      heroPersona |-> hp, scriptPersona |-> sp,
      isTouchDevice |-> d[1], screenWidth |-> d[2],
      devicePixelRatio |-> d[3], innerWidth |-> d[4], hour |-> h] :
        q \in Queries, b \in BehaviorTokens, r \in Referrers,
        hp \in HeroPersonas, sp \in ScriptPersonas, d \in Displays,
        h \in Hours}

InitDetect ==
    /\ InitPipelineState
    /\ InitObserverState
    /\ InitScorerState
    /\ InitPageState
    /\ storage = EmptyState
    /\ abEnabledFlag = FALSE
    /\ urlAbParam = FALSE
    /\ returned = [i \in IntentSet |-> None]
    /\ lastCall = NoCall

\* IntentFlow.init() and its callback, on a page that cannot fetch the
\* registry documents.
NextDetect ==
    \/ SdkInit /\ UNCHANGED <<aggVars, pipeVars, pageVars>>
    \/ /\ sdkState = "loading"
       /\ \E ctx \in Contexts :
             EmbeddedRegistriesLoaded(ctx) /\ UNCHANGED <<aggVars, pageVars>>

SpecDetect == InitDetect /\ [][NextDetect]_vars

(***************************************************************************)
(* SpecDecide: the Decision Engine and personalize(override)               *)
(***************************************************************************)

\* The intent results decide is called with directly: no result at all, and
\* every combination of an intent (None: absent), a confidence (0: absent)
\* and a signal list (absent, empty, one signal).
DirectResults ==
    {NullResult} \cup
    {[null |-> FALSE, intent |-> i, confidence |-> c,
      scores |-> [k \in {i} \ {None} |-> c \div 100],
      signals |-> s[2], signalsGiven |-> s[1]] :
        i \in {None, "DEFAULT", "COMPARE"},
        c \in {0, 8250},
        s \in {<<FALSE, <<>>>>, <<TRUE, <<>>>>,
               <<TRUE, <<[type |-> "utm_campaign",
                          detectedIntent |-> "COMPARE", weight |-> 60]>>>>}}

InitDecide ==
    /\ InitPipelineState
    /\ InitObserverState
    /\ InitScorerState
    /\ InitPageState
    /\ storage = EmptyState
    /\ abEnabledFlag = FALSE
    /\ urlAbParam = FALSE
    /\ returned = [i \in IntentSet |-> None]
    /\ lastCall = NoCall

NextDecide ==
    \/ \E pair \in Registries :
          /\ DecisionEngineInit(pair[1], pair[2])
          /\ UNCHANGED <<abVars, obsVars, aggVars, pageVars>>
    \/ \E given \in DirectResults :
          DecideCall(given) /\ UNCHANGED <<abVars, obsVars, aggVars, pageVars>>
    \/ \E override \in IntentSet \cup {None} :
          Personalize(override) /\ UNCHANGED <<aggVars, pageVars>>
    \/ ClockAdvance /\ UNCHANGED <<abVars, aggVars, pipeVars, pageVars>>

SpecDecide == InitDecide /\ [][NextDecide]_vars

(***************************************************************************)
(* SpecLoad: loadRegistries, parseQueryParams and the first personalize()  *)
(***************************************************************************)

HexDigits ==
    <<"0", "1", "2", "3", "4", "5", "6", "7", "8", "9",
      "A", "B", "C", "D", "E", "F">>

\* The value of hexadecimal digit c, -1 when c is none.
HexValue(c) == Position(toUpperCase(<<c>>)[1], HexDigits) - 1

\* The characters U+0020 to U+007E, in code order; U+0060 is written by
\* name.
PrintableAscii ==
    <<" ", "!", "\"", "#", "$", "%", "&", "'", "(", ")", "*", "+", ",", "-",
      ".", "/", "0", "1", "2", "3", "4", "5", "6", "7", "8", "9", ":", ";",
      "<", "=", ">", "?", "@", "A", "B", "C", "D", "E", "F", "G", "H", "I",
      "J", "K", "L", "M", "N", "O", "P", "Q", "R", "S", "T", "U", "V", "W",
      "X", "Y", "Z", "[", "\\", "]", "^", "_",
      "<grave>", "a", "b", "c", "d", "e",
      "f", "g", "h", "i", "j", "k", "l", "m", "n", "o", "p", "q", "r", "s",
      "t", "u", "v", "w", "x", "y", "z", "{", "|", "}", "~">>

\* Decoded characters the extractors do not tell apart: the control
\* characters, and every code point above U+007F.
ControlChar == "<control>"

NonAscii == "<non-ascii>"

CharOfOctet(b) ==
    IF b >= 32 /\ b <= 126 THEN PrintableAscii[b - 31] ELSE ControlChar

\* The octet of the escape %XY at position k of s, -1 when there is none.
OctetAt(s, k) ==
    IF /\ k + 2 <= Len(s)
       /\ s[k] = "%"
       /\ HexValue(s[k + 1]) >= 0
       /\ HexValue(s[k + 2]) >= 0
    THEN 16 * HexValue(s[k + 1]) + HexValue(s[k + 2])
    ELSE -1

\* The length of the UTF-8 sequence led by octet b, 0 when b leads none.
Utf8Length(b) ==
    IF b < 0 THEN 0
    ELSE IF b < 128 THEN 1
    ELSE IF b >= 194 /\ b <= 223 THEN 2
    ELSE IF b >= 224 /\ b <= 239 THEN 3
    ELSE IF b >= 240 /\ b <= 244 THEN 4
    ELSE 0

\* Octet b may stand at position j >= 2 of the UTF-8 sequence led by lead.
Utf8Continues(lead, j, b) ==
    /\ b >= 128
    /\ b <= 191
    /\ (j = 2 /\ lead = 224) => b >= 160
    /\ (j = 2 /\ lead = 237) => b <= 159
    /\ (j = 2 /\ lead = 240) => b >= 144
    /\ (j = 2 /\ lead = 244) => b <= 143

URIError == [threw |-> TRUE, value |-> <<>>]

\* decodeURIComponent of s from position k on: a '%' must begin the escapes
\* of one well-formed UTF-8 sequence, or a URIError is thrown.
RECURSIVE DecodeFrom(_, _)
DecodeFrom(s, k) ==
    IF k > Len(s) THEN [threw |-> FALSE, value |-> <<>>]
    ELSE IF s[k] # "%"
    THEN LET rest == DecodeFrom(s, k + 1)
         IN  IF rest.threw THEN URIError
             ELSE [threw |-> FALSE, value |-> <<s[k]>> \o rest.value]
    ELSE LET lead == OctetAt(s, k)
             n == Utf8Length(lead)
         IN  IF n = 0 THEN URIError
             ELSE IF \E j \in 2..n :
                        ~Utf8Continues(lead, j, OctetAt(s, k + 3 * (j - 1)))
             THEN URIError
             ELSE LET rest == DecodeFrom(s, k + 3 * n)
                      c == IF n = 1 THEN CharOfOctet(lead) ELSE NonAscii
                  IN  IF rest.threw THEN URIError
                      ELSE [threw |-> FALSE, value |-> <<c>> \o rest.value]

decodeURIComponent(s) == DecodeFrom(s, 1)

\* String.prototype.split(sep) for a one-character separator, from position
\* k on, current being the piece read so far.
RECURSIVE SplitFrom(_, _, _, _)
SplitFrom(s, sep, k, current) ==
    IF k > Len(s) THEN <<current>>
    ELSE IF s[k] = sep
    THEN <<current>> \o SplitFrom(s, sep, k + 1, <<>>)
    ELSE SplitFrom(s, sep, k + 1, Append(current, s[k]))

split(s, sep) == SplitFrom(s, sep, 1, <<>>)

\* The characters of the parameter names the extractors read.
ParamChars ==
    [key \in ParamKeys |->
        IF key = "intent" THEN
            <<"i", "n", "t", "e", "n", "t">>
        ELSE IF key = "persona" THEN
            <<"p", "e", "r", "s", "o", "n", "a">>
        ELSE IF key = "utm_campaign" THEN
            <<"u", "t", "m", "_", "c", "a", "m", "p", "a", "i", "g", "n">>
        ELSE IF key = "utm_source" THEN
            <<"u", "t", "m", "_", "s", "o", "u", "r", "c", "e">>
        ELSE IF key = "behavior" THEN
            <<"b", "e", "h", "a", "v", "i", "o", "r">>
        ELSE IF key = "q" THEN
            <<"q">>
        ELSE IF key = "query" THEN
            <<"q", "u", "e", "r", "y">>
        ELSE IF key = "search" THEN
            <<"s", "e", "a", "r", "c", "h">>
        ELSE IF key = "keyword" THEN
            <<"k", "e", "y", "w", "o", "r", "d">>
        ELSE
            <<"k", "e", "y", "w", "o", "r", "d", "s">>]

\* The forEach loop of parseQueryParams from pair k on:
\* params[decodeURIComponent(parts[0])] = decodeURIComponent(parts[1] || '').
\* Of the parameters set, those the extractors read are kept.
RECURSIVE ParsePairs(_, _, _)
ParsePairs(pairs, k, params) ==
    IF k > Len(pairs) THEN [threw |-> FALSE, params |-> params]
    ELSE LET parts == split(pairs[k], "=")
             raw == IF Len(parts) >= 2 THEN parts[2] ELSE <<>>
             name == decodeURIComponent(parts[1])
             value == decodeURIComponent(raw)
         IN  IF name.threw \/ value.threw
             THEN [threw |-> TRUE, params |-> NoParams]
             ELSE ParsePairs(pairs, k + 1,
                      [key \in ParamKeys |->
                          IF ParamChars[key] = name.value THEN value.value
                          ELSE params[key]])

\* parseQueryParams(), search being window.location.search.substring(1).
parseQueryParams(search) ==
    IF search = <<>> THEN [threw |-> FALSE, params |-> NoParams]
    ELSE ParsePairs(split(search, "&"), 1, NoParams)

\* The query strings of the pages SpecLoad opens: none, well-formed ones
\* (plain, escaped, a repeated '=', a name without value, empty pairs) and
\* ones with a '%' that begins no escape or a truncated UTF-8 sequence.
RawSearches ==
    {<<>>,
     <<"i", "n", "t", "e", "n", "t", "=", "c", "o", "m", "p", "a", "r", "e">>,
     <<"i", "n", "t", "e", "n", "t", "=", "b", "u", "y", "-", "n", "o", "w",
       "&", "q", "=", "c", "h", "e", "a", "p">>,
     <<"i", "n", "t", "e", "n", "t", "=", "%", "6", "3", "o", "m", "p", "a",
       "r", "e">>,
     <<"q", "=", "c", "a", "f", "%", "C", "3", "%", "A", "9">>,
     <<"q", "=", "a", "=", "b">>,
     <<"i", "n", "t", "e", "n", "t">>,
     <<"p", "e", "r", "s", "o", "n", "a", "=", "b", "u", "d", "g", "e", "t",
       "&", "&", "=", "x">>,
     <<"u", "t", "m", "_", "c", "a", "m", "p", "a", "i", "g", "n", "=", "5",
       "0", "%", "2", "5", "o", "f", "f">>,
     <<"q", "=", "1", "0", "0", "%">>,
     <<"u", "t", "m", "_", "c", "a", "m", "p", "a", "i", "g", "n", "=", "5",
       "0", "%", "o", "f", "f">>,
     <<"q", "=", "%", "E", "0", "%", "A", "4", "%", "A">>,
     <<"%", "=", "x">>}

\* The pages SpecLoad opens: a query string, with or without referrer and
\* persona attribute, on a desktop display at noon.
LoadPages ==
    {[search |-> s, referrer |-> r, heroPersona |-> hp] :
        s \in RawSearches,
        r \in {<<>>, <<"h", "t", "t", "p", "s", ":", "/", "/", "w", "w", "w",
                       ".", "g", "o", "o", "g", "l", "e", ".", "c", "o", "m",
                       "/">>},
        hp \in {<<>>, <<"b", "u", "d", "g", "e", "t">>}}

\* What detect() reads on page, params being the parsed query string.
PageContext(page, params) ==
    [params |-> params, referrer |-> page.referrer,
     heroPersona |-> page.heroPersona, scriptPersona |-> <<>>,
     isTouchDevice |-> FALSE, screenWidth |-> 1920,
     devicePixelRatio |-> 1, innerWidth |-> 1920, hour |-> 12,
     search |-> page.search]

\* personalize() on page: detect() begins with parseQueryParams(), whose
\* URIError leaves detect and personalize; nothing catches it there.
PersonalizePage(page, templates, assets) ==
    \E parsed \in {parseQueryParams(page.search)} :
        IF parsed.threw
        THEN /\ context' = <<PageContext(page, NoParams)>>
             /\ UNCHANGED <<lastIntentResult, decision, decidedWith, abVars,
                            lastDecision, lastCycle, eventCounts>>
        ELSE PersonalizeSteps(None, PageContext(page, parsed.params),
                              templates, assets)

\* The exception personalize() on page leaves with, None when it returns.
PersonalizeError(page, templates, assets) ==
    LET parsed == parseQueryParams(page.search)
    IN  IF parsed.threw THEN "URIError"
        ELSE decide(detect(PageContext(page, parsed.params)),
                    templates, assets, now).error

\* var loaded = { templates: null, assets: null }; settled lists the
\* requests in the order they settled, with their outcome.
NothingLoaded == [templates |-> <<>>, assets |-> <<>>, settled |-> <<>>]

\* getFallbackTemplates(), getFallbackAssets()
Embedded == [templates |-> FallbackTemplates, assets |-> FallbackAssets]

\* What registry/templates.json and registry/assets.json hold when they are
\* served.
Served ==
    [templates |-> {SharedIntentTemplates, MissingDefaultTemplates},
     assets |-> {PartialAssets, NoDefaultAssets}]

\* Mutant of checkDone: the callback runs whenever a request settles.
checkDone_eachSettle(count) == [count |-> count + 1, done |-> TRUE]

\* checkDone(): count++, and whether count === 2.
checkDone(count) == [count |-> count + 1, done |-> count + 1 = 2]

\* IntentFlow.init() up to loadRegistries: both requests are sent.
SdkInitLoading ==
    /\ SdkInit
    /\ loaded' = NothingLoaded
    /\ loadCount' = 0

\* loaded.templates, loaded.assets as passed on: null while not set.
Slot(slot, null) == IF slot = <<>> THEN null ELSE slot[1]

\* The request for registry which (templates or assets) settles: it failed
\* (HTTP status, JSON.parse) or delivered data.  The loadRegistries callback
\* sets the slot, falling back to the embedded registry after a failure, and
\* calls checkDone; at count 2 the init callback runs DecisionEngine.init and
\* personalize().  loadJSON calls its callback inside the try block of the
\* success path: an exception out of personalize() is caught there and the
\* callback is called once more, with the exception as the error.  After a
\* failed request the exception leaves the XHR handler uncaught.
Settled(which, failed, data, page) ==
    /\ sdkState = "loading"
    /\ loaded[which] = <<>>
    /\ LET slots == [loaded EXCEPT
                        ![which] = <<IF failed THEN Embedded[which]
                                     ELSE data>>,
                        !.settled = Append(@, [which |-> which,
                                               failed |-> failed])]
           checked == checkDone(loadCount)
       IN  IF ~checked.done
           THEN /\ loaded' = slots
                /\ loadCount' = checked.count
                /\ UNCHANGED <<sdkState, abVars, pipeVars, lastDecision,
                               lastCycle, eventCounts, uncaught>>
           ELSE LET templates == Slot(slots.templates, NullTemplates)
                    assets == Slot(slots.assets, NullAssets)
                    error == PersonalizeError(page, templates, assets)
                IN  /\ sdkState' = "ready"
                    /\ templateRegistry' = templates
                    /\ assetRegistry' = assets
                    /\ PersonalizePage(page, templates, assets)
                    /\ IF error # None /\ ~failed
                       THEN /\ loaded' = [slots EXCEPT
                                             ![which] = <<Embedded[which]>>]
                            /\ loadCount' = checkDone(checked.count).count
                            /\ uncaught' = None
                       ELSE /\ loaded' = slots
                            /\ loadCount' = checked.count
                            /\ uncaught' = error
    /\ UNCHANGED <<now, isInitialized, observerStarted, initTime,
                   lastRePersonalizationTime, behaviorScores,
                   currentSessionIntent, observedActions>>

InitLoad ==
    /\ InitPipelineState
    /\ InitObserverState
    /\ InitScorerState
    /\ InitPageState
    /\ storage = EmptyState
    /\ abEnabledFlag = FALSE
    /\ urlAbParam = FALSE
    /\ returned = [i \in IntentSet |-> None]
    /\ lastCall = NoCall

NextLoad ==
    \/ SdkInitLoading
          /\ UNCHANGED <<aggVars, pipeVars, tabVars, heroVars, sessionVars>>
    \/ /\ sdkState = "loading"
       /\ \E which \in {"templates", "assets"}, page \in LoadPages :
             \/ Settled(which, TRUE, Embedded[which], page)
             \/ \E data \in Served[which] :
                   Settled(which, FALSE, data, page)
       /\ UNCHANGED <<aggVars, tabVars, hero, defaultContent, timers,
                      ctaClickEvents, sessionVars>>

SpecLoad == InitLoad /\ [][NextLoad]_vars

(***************************************************************************)
(* SpecHero: Injector.inject, its timer callbacks and the CTA listener     *)
(***************************************************************************)

\* Bounds: the personalize() calls and the clicks on the hero CTA.
MaxHeroCycles == 2

MaxCtaClicks == 1

\* A template registry out of registry/templates.json whose template for
\* BUY_NOW has an id with a space in it.
SpacedIdTemplates ==
    [loaded |-> TRUE, hasTemplates |-> TRUE,
     templates |->
        <<[key |-> "hero-impact", id |-> "hero impact",
           intents |-> {"BUY_NOW"}],
          [key |-> "hero-value", id |-> "hero-value",
           intents |-> {"BUDGET", "DEFAULT"}]>>,
     defaultTemplate |-> "hero-value"]

HeroRegistries ==
    {<<FallbackTemplates, FallbackAssets>>,
     <<SpacedIdTemplates, FallbackAssets>>}

\* The characters of the template ids of HeroRegistries.
TemplateIdChars(id) ==
    IF id = "hero-impact" THEN
        <<"h", "e", "r", "o", "-", "i", "m", "p", "a", "c", "t">>
    ELSE IF id = "hero-comparison" THEN
        <<"h", "e", "r", "o", "-", "c", "o", "m", "p", "a", "r", "i", "s",
          "o", "n">>
    ELSE IF id = "hero-value" THEN
        <<"h", "e", "r", "o", "-", "v", "a", "l", "u", "e">>
    ELSE <<"h", "e", "r", "o", " ", "i", "m", "p", "a", "c", "t">>

\* DOMTokenList.add(token) throws InvalidCharacterError when the token
\* contains ASCII whitespace.
ClassTokenError(id) ==
    IF \E k \in 1..Len(TemplateIdChars(id)) : TemplateIdChars(id)[k] = " "
    THEN "InvalidCharacterError" ELSE None

\* The markup the page author put into the hero, and its class attribute.
DefaultHtml == [layout |-> "default", intent |-> None, abVariant |-> None]

DefaultClass == "hero"

\* The hero element as the page delivers it: opacity '' is visible, cta is
\* the decision the click listener of #intentflow-cta is bound to.
PageHero ==
    [innerHTML |-> DefaultHtml, className |-> DefaultClass, opacity |-> "",
     cta |-> <<>>]

\* renderTemplate(decision, basePath): the switch on decision.template.
renderTemplate(shown) ==
    [layout |-> IF shown.template = "hero-comparison" THEN "comparison"
                ELSE IF shown.template = "hero-value" THEN "value"
                ELSE "impact",
     intent |-> shown.intent, abVariant |-> shown.abVariant]

\* The timers of kind kind that precede position k.
EarlierTimers(k, kind) == {j \in 1..(k - 1) : timers[j].kind = kind}

\* The timers without the one at position k.
WithoutTimer(k) == SubSeq(timers, 1, k - 1) \o SubSeq(timers, k + 1, Len(timers))

\* inject(decision, options) up to its return: nothing in the try block
\* throws for a decision of personalize(), so the catch block with
\* restoreDefault() is not entered; the swap is left to a 300 ms timer.
Inject(shown) ==
    IF hero = <<>>
    THEN UNCHANGED <<hero, defaultContent, timers>>
    ELSE /\ defaultContent' =
               IF defaultContent = <<>>
               THEN <<[innerHTML |-> hero[1].innerHTML,
                       className |-> hero[1].className]>>
               ELSE defaultContent
         /\ hero' = <<[hero[1] EXCEPT !.opacity = "0"]>>
         /\ timers' = Append(timers, [kind |-> "swap", shown |-> shown])

\* personalize(override) on a page with the hero element: the steps of
\* PersonalizeSteps, with Injector.inject between the A/B overlay and the
\* decision_made record.
HeroPersonalize(override) ==
    /\ eventCounts.decision_made < MaxHeroCycles
    /\ PersonalizeSteps(override, BlankContext, templateRegistry,
                        assetRegistry)
    /\ IF decision'[1].error # None
       THEN UNCHANGED <<hero, defaultContent, timers>>
       ELSE Inject([intent |-> decision'[1].intent,
                    template |-> decision'[1].template,
                    abVariant |-> IF isEnabled THEN lastCall'.abVariant
                                  ELSE None])
    /\ UNCHANGED <<templateRegistry, assetRegistry, now,
                   isInitialized, observerStarted, initTime,
                   lastRePersonalizationTime, behaviorScores,
                   currentSessionIntent, observedActions, sdkState,
                   uncaught, ctaClickEvents>>

\* The 300 ms callback of inject: the markup is swapped, the container
\* class of the earlier swap is removed and that of decision.template added,
\* the click listener is bound and the 50 ms fade-in timer is set.  The
\* callback runs outside the try block of inject: an exception of
\* classList.add ends it there and reaches no handler.
SwapCallback ==
    \E k \in 1..Len(timers) :
        /\ timers[k].kind = "swap"
        /\ EarlierTimers(k, "swap") = {}
        /\ LET shown == timers[k].shown
               error == ClassTokenError(shown.template)
           IN  /\ uncaught' = error
               /\ IF error # None
                  THEN /\ hero' = <<[hero[1] EXCEPT
                                        !.innerHTML = renderTemplate(shown),
                                        !.className = DefaultClass,
                                        !.cta = <<>>]>>
                       /\ timers' = WithoutTimer(k)
                  ELSE /\ hero' = <<[hero[1] EXCEPT
                                        !.innerHTML = renderTemplate(shown),
                                        !.className = shown.template,
                                        !.cta = <<shown>>]>>
                       /\ timers' = Append(WithoutTimer(k),
                                           [kind |-> "fadeIn",
                                            shown |-> shown])
        /\ UNCHANGED <<defaultContent, ctaClickEvents>>

\* The 50 ms callback of the swap: the hero fades in.
FadeInCallback ==
    \E k \in 1..Len(timers) :
        /\ timers[k].kind = "fadeIn"
        /\ EarlierTimers(k, "fadeIn") = {}
        /\ hero' = <<[hero[1] EXCEPT !.opacity = "1"]>>
        /\ timers' = WithoutTimer(k)
        /\ UNCHANGED <<defaultContent, uncaught, ctaClickEvents>>

\* A click on #intentflow-cta: the listener bound by the swap calls
\* EventTracker.trackCtaClick, which logs a cta_click record.  Nothing calls
\* ABExplorer.recordClick.
CtaClick ==
    /\ hero # <<>>
    /\ hero[1].cta # <<>>
    /\ ctaClickEvents < MaxCtaClicks
    /\ ctaClickEvents' = ctaClickEvents + 1
    /\ UNCHANGED <<hero, defaultContent, timers, uncaught>>

InitHero ==
    /\ InitPipelineState
    /\ InitObserverState
    /\ InitScorerState
    /\ InitTabState
    /\ InitLoadState
    /\ InitSessionState
    /\ storage = EmptyState
    /\ abEnabledFlag = FALSE
    /\ urlAbParam \in BOOLEAN
    /\ returned = [i \in IntentSet |-> None]
    /\ lastCall = NoCall
    /\ hero = <<PageHero>>
    /\ defaultContent = <<>>
    /\ timers = <<>>
    /\ uncaught = None
    /\ ctaClickEvents = 0

NextHero ==
    \/ \E pair \in HeroRegistries :
          /\ DecisionEngineInit(pair[1], pair[2])
          /\ UNCHANGED <<abVars, obsVars, aggVars, pageVars>>
    \/ \E override \in {None, "BUY_NOW", "COMPARE"} :
          HeroPersonalize(override)
             /\ UNCHANGED <<aggVars, tabVars, loadVars, sessionVars>>
    \/ SwapCallback
          /\ UNCHANGED <<abVars, obsVars, aggVars, pipeVars, tabVars,
                         loadVars, sessionVars>>
    \/ FadeInCallback
          /\ UNCHANGED <<abVars, obsVars, aggVars, pipeVars, tabVars,
                         loadVars, sessionVars>>
    \/ CtaClick
          /\ UNCHANGED <<abVars, obsVars, aggVars, pipeVars, tabVars,
                         loadVars, sessionVars>>

SpecHero == InitHero /\ [][NextHero]_vars

(***************************************************************************)
(* SpecPages: personalize() with the A/B overlay and the page overrides    *)
(***************************************************************************)

\* Bound: the personalize() calls of SpecPages.
MaxPageCycles == 2

\* The values of the data-intentflow-page attribute: the four page types and
\* one that pageOverrides has no entry for.
PageTypes == {"homepage", "product", "category", "landing", "checkout"}

\* pageOverrides: per page type, the intents it holds texts for.
pageOverrides ==
    [product |-> IntentSet, category |-> IntentSet, landing |-> IntentSet]

\* headline, subheadline, cta_text and cta_link of the decision after
\* applyVariant: those of variantB[intent] when the decision is tagged 'B',
\* else those decide took from the asset registry.
variantText(made, tag) ==
    IF tag = "B" THEN [from |-> "variantB", key |-> made.intent]
    ELSE [from |-> "assets", key |-> made.content]

\* applyPageOverrides(decision, pageType): the four texts it leaves in the
\* decision.
applyPageOverrides(text, intent, pageType) ==
    IF pageType = "homepage" \/ pageType \notin DOMAIN pageOverrides
    THEN text
    ELSE [from |-> pageType,
          key |-> IF intent \in pageOverrides[pageType] THEN intent
                  ELSE "DEFAULT"]

\* personalize(override) on a page whose hero element carries the page type
\* hero[1].page: the steps of PersonalizeSteps, MultiPage.applyPageOverrides
\* after the A/B overlay, then Injector.inject with the decision.
PagePersonalize(override) ==
    /\ eventCounts.decision_made < MaxPageCycles
    /\ PersonalizeSteps(override, BlankContext, templateRegistry,
                        assetRegistry)
    /\ IF decision'[1].error # None
       THEN UNCHANGED <<hero, defaultContent, timers>>
       ELSE LET tag == IF isEnabled THEN lastCall'.abVariant ELSE None
            IN  Inject([intent |-> decision'[1].intent,
                        template |-> decision'[1].template,
                        abVariant |-> tag,
                        text |-> applyPageOverrides(
                                     variantText(decision'[1], tag),
                                     decision'[1].intent, hero[1].page)])
    /\ UNCHANGED <<templateRegistry, assetRegistry, now,
                   isInitialized, observerStarted, initTime,
                   lastRePersonalizationTime, behaviorScores,
                   currentSessionIntent, observedActions, sdkState,
                   uncaught, ctaClickEvents>>

InitPages ==
    /\ InitPipelineState
    /\ InitObserverState
    /\ InitScorerState
    /\ InitTabState
    /\ InitLoadState
    /\ InitSessionState
    /\ storage \in {EmptyState, NearSample}
    /\ abEnabledFlag = FALSE
    /\ urlAbParam \in BOOLEAN
    /\ returned = [i \in IntentSet |-> None]
    /\ lastCall = NoCall
    /\ \E page \in PageTypes :
          hero = <<[innerHTML |-> DefaultHtml, className |-> DefaultClass,
                    opacity |-> "", cta |-> <<>>, page |-> page]>>
    /\ defaultContent = <<>>
    /\ timers = <<>>
    /\ uncaught = None
    /\ ctaClickEvents = 0

NextPages ==
    \/ /\ templateRegistry = NullTemplates
       /\ DecisionEngineInit(FallbackTemplates, FallbackAssets)
       /\ UNCHANGED <<abVars, obsVars, aggVars, pageVars>>
    \/ \E override \in {None} \cup IntentSet :
          PagePersonalize(override)
             /\ UNCHANGED <<aggVars, tabVars, loadVars, sessionVars>>

SpecPages == InitPages /\ [][NextPages]_vars

(***************************************************************************)
(* SpecWatch: the Context Observer over the Decision Engine                *)
(***************************************************************************)

\* Bounds: the step of the clock of SpecWatch and the number of its steps.
SettleTickMs == 1000

MaxSettleTicks == 2

\* Bound: the number of interactions scored in SpecWatch.
MaxInteractions == 3

\* Mutant of observerInit: no isInitialized test, every call arms the timer.
observerInit_rearm(initialized, armedAt, t) ==
    [isInitialized |-> TRUE, initTime |-> t]

\* ContextObserver.init() at time t: the first call arms the settle timer,
\* a later call returns at once.
observerInit(initialized, armedAt, t) ==
    IF initialized THEN [isInitialized |-> TRUE, initTime |-> armedAt]
    ELSE [isInitialized |-> TRUE, initTime |-> t]

\* ContextObserver.init(), called through the exported API.
ObserverInit ==
    /\ isInitialized' = observerInit(isInitialized, initTime, now).isInitialized
    /\ initTime' = observerInit(isInitialized, initTime, now).initTime
    /\ UNCHANGED <<now, observerStarted, lastRePersonalizationTime,
                   behaviorScores, currentSessionIntent, observedActions,
                   lastDecision, lastCycle, eventCounts, sdkState>>

\* IntentFlow.init(): ContextObserver.init(), then loadRegistries.
WatchSdkInit ==
    /\ sdkState = "unloaded"
    /\ sdkState' = "loading"
    /\ isInitialized' = observerInit(isInitialized, initTime, now).isInitialized
    /\ initTime' = observerInit(isInitialized, initTime, now).initTime
    /\ UNCHANGED <<now, observerStarted, lastRePersonalizationTime,
                   behaviorScores, currentSessionIntent, observedActions,
                   lastDecision, lastCycle, eventCounts>>

\* The registries the page of SpecWatch is served.
WatchRegistries ==
    {<<FallbackTemplates, FallbackAssets>>,
     <<MissingDefaultTemplates, FallbackAssets>>}

\* The callback of loadRegistries: DecisionEngine.init on the registries
\* loaded, then personalize().  The assets are the embedded ones, their
\* request failed; an exception of personalize is swallowed by the try of
\* loadJSON when the templates settle last and escapes when the assets do.
WatchRegistriesLoaded(pair) ==
    /\ sdkState = "loading"
    /\ sdkState' = "ready"
    /\ templateRegistry' = pair[1]
    /\ assetRegistry' = pair[2]
    /\ PersonalizeSteps(None, BlankContext, pair[1], pair[2])
    /\ \E last \in {"templates", "assets"} :
          uncaught' = IF last = "templates" /\ pair[1] # FallbackTemplates
                      THEN None ELSE decision'[1].error
    /\ UNCHANGED <<now, isInitialized, observerStarted, initTime,
                   lastRePersonalizationTime, behaviorScores,
                   currentSessionIntent, observedActions>>

\* A scroll, click, section view or hover of the visitor.  Before the settle
\* timer has fired no listener is set up and nothing runs.  After it,
\* addBehaviorScore runs with the checkForRePersonalization it ends with:
\* lastRePersonalizationTime = now, the behavioral_re_personalization
\* record, IF.personalize({ intent: dominantIntent }), then the decay and
\* currentSessionIntent.  An exception out of personalize leaves
\* checkForRePersonalization there; nothing catches it.
Interaction(ev) ==
    IF ~observerStarted
    THEN UNCHANGED <<obsVars, abVars, pipeVars, uncaught, actionTypes>>
    ELSE
    /\ observedActions.length < MaxInteractions
    /\ observedActions' = [length |-> observedActions.length + 1, last |-> ev]
    /\ actionTypes' = Append(actionTypes, ev.type)
    /\ LET scores == [behaviorScores EXCEPT
                         ![ev.intent] = @ + Hundredths(ev.weight)]
           dominantIntent == checkForRePersonalization(
                                 scores, now, lastRePersonalizationTime,
                                 CurrentIntent)
       IN  IF dominantIntent = None
           THEN /\ behaviorScores' = scores
                /\ UNCHANGED <<lastRePersonalizationTime, currentSessionIntent,
                               lastDecision, lastCycle, eventCounts, abVars,
                               pipeVars, uncaught>>
           ELSE
           /\ eventCounts.behavioral_re_personalization < MaxTriggers
           /\ lastRePersonalizationTime' = now
           /\ \E given \in {personalizeResult(dominantIntent, BlankContext)} :
              \E made \in {decide(given, templateRegistry, assetRegistry,
                                  now)} :
                 /\ lastIntentResult' = <<given>>
                 /\ decision' = <<made>>
                 /\ decidedWith' = <<templateRegistry, assetRegistry,
                                     Repeated(given, templateRegistry,
                                              assetRegistry)>>
                 /\ uncaught' = made.error
                 /\ IF made.error # None
                    THEN /\ behaviorScores' = scores
                         /\ eventCounts' =
                               [eventCounts EXCEPT
                                   !.behavioral_re_personalization = @ + 1]
                         /\ UNCHANGED <<currentSessionIntent, lastDecision,
                                        lastCycle, abVars>>
                    ELSE /\ IF isEnabled
                            THEN ApplyVariant(made.intent)
                            ELSE UNCHANGED abVars
                         /\ lastCycle' = [override |-> dominantIntent,
                                          intent |-> made.intent,
                                          detected |-> FALSE]
                         /\ lastDecision' = made.intent
                         /\ eventCounts' =
                               [eventCounts EXCEPT
                                   !.behavioral_re_personalization = @ + 1,
                                   !.decision_made = @ + 1]
                         /\ behaviorScores' = DecayScores(scores)
                         /\ currentSessionIntent' = dominantIntent
           /\ UNCHANGED <<context, templateRegistry, assetRegistry>>
    /\ UNCHANGED <<now, isInitialized, observerStarted, initTime, sdkState>>

\* The clock of SpecWatch advances.
SettleTick ==
    /\ now + SettleTickMs <= StartTime + MaxSettleTicks * SettleTickMs
    /\ now' = now + SettleTickMs
    /\ UNCHANGED <<isInitialized, observerStarted, initTime,
                   lastRePersonalizationTime, behaviorScores,
                   currentSessionIntent, observedActions, lastDecision,
                   lastCycle, eventCounts, sdkState>>

\* Bound: the personalize() calls after which the persona toggle of
\* SpecToggle is no longer clicked.
MaxWatchCycles == 2

\* The click listener of a .persona-btn of the demo page: currentPersona is
\* set, ContextObserver.lockPersona is looked up, which the observer does
\* not export, so nothing is locked, and IntentFlow.personalize({ intent:
\* persona }) runs.  The visitor uses the toggle once the SDK has loaded.
PersonaToggle(persona) ==
    /\ sdkState = "ready"
    /\ persona # currentPersona
    /\ eventCounts.decision_made < MaxWatchCycles
    /\ currentPersona' = persona
    /\ PersonalizeSteps(persona, BlankContext, templateRegistry,
                        assetRegistry)
    /\ uncaught' = decision'[1].error
    /\ UNCHANGED <<templateRegistry, assetRegistry, now, isInitialized,
                   observerStarted, initTime, lastRePersonalizationTime,
                   behaviorScores, currentSessionIntent, observedActions,
                   sdkState, scrollTracker, actionTypes>>

InitWatch ==
    /\ InitObserverState
    /\ InitScorerState
    /\ InitPageState
    /\ InitPipelineState
    /\ storage = EmptyState
    /\ abEnabledFlag = FALSE
    /\ urlAbParam = FALSE
    /\ returned = [i \in IntentSet |-> None]
    /\ lastCall = NoCall

NextWatch ==
    \/ ObserverInit
          /\ UNCHANGED <<abVars, aggVars, pipeVars, pageVars>>
    \/ WatchSdkInit
          /\ UNCHANGED <<abVars, aggVars, pipeVars, pageVars>>
    \/ \E pair \in WatchRegistries : WatchRegistriesLoaded(pair)
          /\ UNCHANGED <<aggVars, tabVars, loadVars, hero, defaultContent,
                         timers, ctaClickEvents, sessionVars>>
    \/ ObserverStart
          /\ UNCHANGED <<aggVars, pipeVars, pageVars>>
    \/ \E ev \in ObserverEvents : Interaction(ev)
          /\ UNCHANGED <<aggVars, tabVars, loadVars, hero, defaultContent,
                         timers, ctaClickEvents, scrollTracker,
                         currentPersona>>
    \/ SettleTick
          /\ UNCHANGED <<abVars, aggVars, pipeVars, pageVars>>

SpecWatch == InitWatch /\ [][NextWatch]_vars

\* SpecToggle: the page of SpecWatch with the persona toggle of the demo.
NextToggle ==
    \/ NextWatch
    \/ \E persona \in IntentSet : PersonaToggle(persona)
          /\ UNCHANGED <<aggVars, tabVars, loadVars, hero, defaultContent,
                         timers, ctaClickEvents>>

SpecToggle == InitWatch /\ [][NextToggle]_vars

(***************************************************************************)
(* SpecScroll: the scroll listener of the Context Observer                 *)
(***************************************************************************)

\* Bound: the clock steps of SpecScroll after the settle delay.
MaxScrollTicks == 12

\* CONFIG.SCROLL_VELOCITY_THRESHOLD, in px/s.
SCROLL_VELOCITY_THRESHOLD == 800

\* The time between two animation frames with a scroll event, in ms, and
\* the values of window.scrollY.  A gap of 0 ms is two samples with no clock
\* step between them.
ScrollGaps == {499, 500}

ScrollPositions == {0, 499}

\* Mutant of scrollSample: a gap has no upper limit.
scrollSample_anyGap(tracker, t, y) ==
    LET dt == t - tracker.lastTime
        reads == tracker.lastTime > 0 /\ dt > 0
        distance == IF y >= tracker.lastY THEN y - tracker.lastY
                    ELSE tracker.lastY - y
        velocity == (distance * 1000) \div dt
        pushed == Append(tracker.velocities, velocity)
    IN  [tracker |->
            [lastY |-> y, lastTime |-> t,
             velocities |-> IF ~reads THEN tracker.velocities
                            ELSE IF Len(pushed) > 10 THEN Tail(pushed)
                            ELSE pushed],
         fast |-> reads /\ velocity > SCROLL_VELOCITY_THRESHOLD]

\* The requestAnimationFrame callback of the scroll listener at time t with
\* window.scrollY = y: the tracker it leaves, and whether it calls
\* addBehaviorScore('COMPARE', 0.05, 'fast_scroll').  velocity is
\* Math.abs(currentY - lastY) / (dt / 1000), a whole number for the
\* positions and gaps of SpecScroll.
scrollSample(tracker, t, y) ==
    LET dt == t - tracker.lastTime
        reads == tracker.lastTime > 0 /\ dt > 0 /\ dt < 500
        distance == IF y >= tracker.lastY THEN y - tracker.lastY
                    ELSE tracker.lastY - y
        velocity == (distance * 1000) \div dt
        pushed == Append(tracker.velocities, velocity)
    IN  [tracker |->
            [lastY |-> y, lastTime |-> t,
             velocities |-> IF ~reads THEN tracker.velocities
                            ELSE IF Len(pushed) > 10 THEN Tail(pushed)
                            ELSE pushed],
         fast |-> reads /\ velocity > SCROLL_VELOCITY_THRESHOLD]

\* A scroll event handled in the next animation frame, once the listener is
\* set up.
ScrollSample(y) ==
    /\ observerStarted
    /\ scrollTracker' = scrollSample(scrollTracker, now, y).tracker
    /\ IF scrollSample(scrollTracker, now, y).fast
       THEN Interaction([type |-> "fast_scroll", intent |-> "COMPARE",
                         weight |-> 5])
       ELSE UNCHANGED <<obsVars, abVars, pipeVars, uncaught, actionTypes>>

\* The clock of SpecScroll advances to the next scroll event; at most one
\* step between two samples.
ScrollClock(gap) ==
    /\ observerStarted
    /\ scrollTracker.lastTime \in {0, now}
    /\ now + gap <= StartTime + MaxSettleTicks * SettleTickMs
                       + MaxScrollTicks * 500
    /\ now' = now + gap
    /\ UNCHANGED <<isInitialized, observerStarted, initTime,
                   lastRePersonalizationTime, behaviorScores,
                   currentSessionIntent, observedActions, lastDecision,
                   lastCycle, eventCounts, sdkState>>

NextScroll ==
    \/ ObserverInit
          /\ UNCHANGED <<abVars, aggVars, pipeVars, pageVars>>
    \/ ~observerStarted /\ SettleTick
          /\ UNCHANGED <<abVars, aggVars, pipeVars, pageVars>>
    \/ ObserverStart
          /\ UNCHANGED <<aggVars, pipeVars, pageVars>>
    \/ \E gap \in ScrollGaps : ScrollClock(gap)
          /\ UNCHANGED <<abVars, aggVars, pipeVars, pageVars>>
    \/ \E y \in ScrollPositions : ScrollSample(y)
          /\ UNCHANGED <<aggVars, tabVars, loadVars, hero, defaultContent,
                         timers, ctaClickEvents, currentPersona>>

SpecScroll == InitWatch /\ [][NextScroll]_vars

(***************************************************************************)
(* Claims about the A/B Explorer (SpecAB)                                  *)
(***************************************************************************)

\* C1: while no winner is locked for an intent, an assignVariant call for
\* it returns what the previous assignVariant call for it returned, and a
\* persisted assignment, once written, is never changed by any call.
C1_StickyAssignment ==
    [][\A i \in ABIntents :
          /\ (storage.winners[i] = None /\ returned[i] # None)
                => returned'[i] = returned[i]
          /\ storage.assignments[i] # None
                => storage'.assignments[i] = storage.assignments[i]]_vars

\* Two calls for one intent were made with no winner locked, and both were
\* served variant B.
C1_Witness ==
    \E i \in ABIntents :
        /\ storage.winners[i] = None
        /\ storage.assignments[i] = "B"
        /\ returned[i] = "B"
        /\ storage.impressions[Key(i, "B")] >= 2

\* C2: an intent has a locked winner exactly when its total impressions
\* (A + B) have reached MIN_SAMPLE_SIZE.
C2_WinnerIffSample ==
    \A i \in ABIntents :
        (TotalImpressions(storage, i) >= MIN_SAMPLE_SIZE)
            <=> (storage.winners[i] # None)

\* One intent has just reached the sample size and is locked while another
\* is one impression short and is not.
C2_Witness ==
    \E i, j \in ABIntents :
        /\ TotalImpressions(storage, i) = MIN_SAMPLE_SIZE
        /\ storage.winners[i] # None
        /\ TotalImpressions(storage, j) = MIN_SAMPLE_SIZE - 1
        /\ storage.winners[j] = None

\* C3: a locked winner is never changed or removed by a later call.
C3_WinnerPermanent ==
    [][\A i \in ABIntents :
          storage.winners[i] # None
              => storage'.winners[i] = storage.winners[i]]_vars

\* Winner A is locked, a further impression was recorded after the lock and
\* the click-through rates now favour B.
C3_Witness ==
    \E i \in ABIntents :
        /\ storage.winners[i] = "A"
        /\ TotalImpressions(storage, i) > MIN_SAMPLE_SIZE
        /\ ~CtrGeq(storage.clicks[Key(i, "A")], storage.impressions[Key(i, "A")],
                   storage.clicks[Key(i, "B")], storage.impressions[Key(i, "B")])

\* rate(c1, n1) > rate(c2, n2), a pair with no impressions having rate 0.
RateGreater(c1, n1, c2, n2) ==
    /\ n1 > 0
    /\ c1 > 0
    /\ (n2 > 0 => c1 * n2 > c2 * n1)

\* C4: at the step that locks a winner the winner is B exactly when B's
\* click-through rate exceeds A's on the counters as they then stand, and A
\* otherwise (ties included).
C4_WinnerByCtr ==
    [][\A i \in ABIntents :
          (storage.winners[i] = None /\ storage'.winners[i] # None)
              => storage'.winners[i] =
                    IF RateGreater(storage'.clicks[Key(i, "B")],
                                   storage'.impressions[Key(i, "B")],
                                   storage'.clicks[Key(i, "A")],
                                   storage'.impressions[Key(i, "A")])
                    THEN "B" ELSE "A"]_vars

\* One intent was locked to B on a higher rate, another to A on a tie while
\* its visitor was served B.
C4_Witness ==
    \E i, j \in ABIntents :
        /\ storage.winners[i] = "B"
        /\ storage.clicks[Key(i, "B")] > 0
        /\ storage.winners[j] = "A"
        /\ storage.assignments[j] = "B"
        /\ storage.clicks[Key(j, "B")] = 0
        /\ storage.impressions[Key(j, "B")] = MIN_SAMPLE_SIZE

\* C5 as stated: every applyVariant call for an intent with a locked winner
\* returns that winner.
C5_Original ==
    (lastCall.op = "applyVariant" /\ lastCall.winnerBefore # None)
        => lastCall.variant = lastCall.winnerBefore

\* C5 amended: every assignVariant call for an intent with a locked winner,
\* hence every applyVariant call made while exploration is enabled, returns
\* that winner, and no call made after the lock writes the intent's entry
\* of the assignment map.
C5_WinnerServed ==
    /\ [](\A i \in ABIntents :
            (/\ lastCall.op = "applyVariant"
             /\ lastCall.intent = i
             /\ lastCall.enabled
             /\ lastCall.winnerBefore # None)
                => /\ lastCall.variant = storage.winners[i]
                   /\ returned[i] = storage.winners[i])
    /\ [][\A i \in ABIntents :
             storage.winners[i] # None
                 => storage'.assignments[i] = storage.assignments[i]]_vars

\* The winner A was served by a call although the persisted assignment is B.
C5_Witness ==
    /\ lastCall.op = "applyVariant"
    /\ lastCall.enabled
    /\ lastCall.winnerBefore = "A"
    /\ lastCall.variant = "A"
    /\ storage.assignments[lastCall.intent] = "B"

(***************************************************************************)
(* Claims about the Context Observer (SpecObs)                             *)
(***************************************************************************)

\* A step that appends an entry to observedActions: one addBehaviorScore.
IncrementStep == observedActions'.length = observedActions.length + 1

\* A step in which the observer logs behavioral_re_personalization.
TriggerStep ==
    eventCounts'.behavioral_re_personalization =
        eventCounts.behavioral_re_personalization + 1

\* The accumulator of an increment step right after the weight was added.
Incremented ==
    [behaviorScores EXCEPT ![observedActions'.last.intent] =
        @ + Hundredths(observedActions'.last.weight)]

NonDefault == IntentSet \ {"DEFAULT"}

\* The largest of the four non-DEFAULT scores.
MaxNonDefault(scores) ==
    CHOOSE m \in {scores[i] : i \in NonDefault} :
        \A i \in NonDefault : scores[i] <= m

\* C6: the observer re-personalizes only in an increment step after which
\* the largest non-DEFAULT score is at least 0.3, and never on the first
\* entry of a fresh accumulator.
C6_NoTriggerBelowShift ==
    /\ [][TriggerStep =>
             /\ IncrementStep
             /\ MaxNonDefault(Incremented) >= Hundredths(30)]_vars
    /\ [](observedActions.length <= 1
             => eventCounts.behavioral_re_personalization = 0)

\* Two events brought BUY_NOW to 0.28 with the cooldown elapsed and another
\* intent active: only the threshold withheld the re-personalization.
C6_Witness ==
    /\ eventCounts.behavioral_re_personalization = 0
    /\ observedActions.length = 2
    /\ behaviorScores["BUY_NOW"] = Hundredths(28)
    /\ CurrentIntent # "BUY_NOW"
    /\ now - lastRePersonalizationTime >= COOLDOWN_MS

C8_Cooldown ==
    [][/\ TriggerStep => now - lastRePersonalizationTime >= 5000
       /\ (IncrementStep /\ now - lastRePersonalizationTime < 5000)
             => /\ ~TriggerStep
                /\ eventCounts' = eventCounts
                /\ lastDecision' = lastDecision
                /\ behaviorScores' = Incremented]_vars

\* Inside the cooldown window of a first re-personalization, with no other
\* personalize() call made, another intent has become dominant at 0.3 or
\* more: the qualifying increment was suppressed.
C8_Witness ==
    /\ eventCounts.behavioral_re_personalization = 1
    /\ Simulations = 0
    /\ lastDecision = currentSessionIntent
    /\ now - lastRePersonalizationTime < COOLDOWN_MS
    /\ Dominant(behaviorScores).intent # CurrentIntent
    /\ Dominant(behaviorScores).maxScore >= Hundredths(MIN_CONFIDENCE_SHIFT)

C10_ConfidenceRange ==
    aggregated # NotAggregated
        => /\ aggregated.confidence >= 0
           /\ aggregated.confidence <= ConfidenceOne
           /\ aggregated.confidence % (ConfidenceOne \div 100) = 0

\* A list whose winner holds 12 of 22 hundredths: 1.5 * 12 / 22 = 0.8181...
\* is below the cap and is returned as 0.82.
C10_Witness ==
    /\ aggregated # NotAggregated
    /\ aggregated.intent = "COMPARE"
    /\ aggregated.scores["COMPARE"] = 12
    /\ SumFrom(aggregated.scores, 1) = 22
    /\ aggregated.confidence = 8200

HighestTotal(totals) ==
    CHOOSE m \in {totals[i] : i \in IntentSet \ {"DEFAULT"}} :
        \A i \in IntentSet \ {"DEFAULT"} : totals[i] <= m

\* The first position in the order BUY_NOW, COMPARE, USE_CASE, BUDGET whose
\* total is the highest one.
FirstHighest(totals) ==
    CHOOSE k \in 1..4 :
        /\ totals[INTENTS[k]] = HighestTotal(totals)
        /\ \A j \in 1..(k - 1) : totals[INTENTS[j]] # HighestTotal(totals)

\* C13: aggregateScores returns the first category in the order BUY_NOW,
\* COMPARE, USE_CASE, BUDGET whose total equals the maximum of those four
\* totals whenever that maximum is at least 0.1, whatever the DEFAULT total;
\* DEFAULT is returned only when that maximum is below 0.1.
C13_FirstMaximumWins ==
    aggregated # NotAggregated
        => IF HighestTotal(aggregated.scores) >= 10
           THEN aggregated.intent = INTENTS[FirstHighest(aggregated.scores)]
           ELSE aggregated.intent = "DEFAULT"

\* COMPARE and BUDGET tie at 0.30 under a DEFAULT total of 1.0: COMPARE, the
\* earlier of the two, wins.
C13_Witness ==
    /\ aggregated # NotAggregated
    /\ aggregated.scores["COMPARE"] = 30
    /\ aggregated.scores["BUDGET"] = 30
    /\ aggregated.scores["DEFAULT"] = 100
    /\ aggregated.intent = "COMPARE"

(***************************************************************************)
(* Claims about detection and decision on a page (SpecDetect)              *)
(***************************************************************************)

\* The page has been personalized: init's callback has run detect and
\* decide on the page context[1].
PagePersonalized == sdkState = "ready" /\ decision # NoDecision

\* The page carries no persona attribute on the hero container or the
\* script tag.
NoPersonaAttributes ==
    context[1].heroPersona = <<>> /\ context[1].scriptPersona = <<>>

\* C14: if the query string carries intent=X with X a valid non-DEFAULT
\* intent, the decision of the pipeline has intent X for every combination
\* of the other signals.
C14_QueryIntentWins ==
    (/\ PagePersonalized
     /\ context[1].params["intent"] # <<>>
     /\ LookupIntent(context[1].params["intent"]) \in IntentSet \ {"DEFAULT"})
        => decision[1].intent = LookupIntent(context[1].params["intent"])

\* C15: with utm_campaign=comparison and a Google-search referrer, and no
\* other query parameter, behaviour token or persona attribute, the pipeline
\* yields intent COMPARE, confidence above 0.5 and the template whose
\* intent list contains COMPARE, for every display and hour.
C15_ComparisonCampaign ==
    (/\ PagePersonalized
     /\ context[1].params
            = Query(<<>>, <<>>, <<"c", "o", "m", "p", "a", "r", "i", "s",
                  "o", "n">>, <<>>, <<>>)
     /\ includes(context[1].referrer, <<"g", "o", "o", "g", "l", "e", ".">>)
     /\ NoPersonaAttributes)
        => /\ decision[1].intent = "COMPARE"
           /\ decision[1].confidence > ConfidenceOne \div 2
           /\ \E k \in 1..Len(templateRegistry.templates) :
                  /\ templateRegistry.templates[k].id = decision[1].template
                  /\ "COMPARE" \in templateRegistry.templates[k].intents

\* The comparison campaign from a Google search on a desktop display in the
\* evening, where device and hour speak for BUY_NOW: COMPARE still wins.
C15_Witness ==
    /\ PagePersonalized
    /\ context[1].params
           = Query(<<>>, <<>>, <<"c", "o", "m", "p", "a", "r", "i", "s", "o",
                 "n">>, <<>>, <<>>)
    /\ includes(context[1].referrer, <<"g", "o", "o", "g", "l", "e", ".">>)
    /\ NoPersonaAttributes
    /\ ~context[1].isTouchDevice
    /\ context[1].hour = 17
    /\ lastIntentResult[1].scores["BUY_NOW"] = 27
    /\ lastIntentResult[1].scores["COMPARE"] = 90
    /\ decision[1].intent = "COMPARE"
    /\ decision[1].template = "hero-comparison"
    /\ decision[1].confidence = ConfidenceOne

\* C16: with no query string, no referrer, no behaviour token and no persona
\* attribute the pipeline yields intent DEFAULT and confidence 1.0, for
\* every display and hour.
C16_NoSignalsDefault ==
    (/\ PagePersonalized
     /\ context[1].params = NoParams
     /\ context[1].referrer = <<>>
     /\ NoPersonaAttributes)
        => /\ decision[1].intent = "DEFAULT"
           /\ decision[1].confidence = ConfidenceOne

(***************************************************************************)
(* Claims about the Decision Engine and personalize (SpecDecide)           *)
(***************************************************************************)

\* C17: decide sets fallback_used to true exactly when the intent is DEFAULT
\* and the signal list is empty or absent; a DEFAULT that comes with a
\* non-empty signal list, and a DEFAULT given as a personalize override,
\* have fallback_used false.
C17_FallbackUsed ==
    (decision # NoDecision /\ decision[1].error = None)
        => (decision[1].fallback_used
               <=> /\ decision[1].intent = "DEFAULT"
                   /\ Len(lastIntentResult[1].signals) = 0)

\* personalize({intent: 'DEFAULT'}): the decision is DEFAULT with the one
\* synthetic signal, and fallback_used is false.
C17_Witness ==
    /\ lastCycle.override = "DEFAULT"
    /\ lastIntentResult = <<SyntheticResult("DEFAULT")>>
    /\ decision[1].intent = "DEFAULT"
    /\ decision[1].error = None
    /\ ~decision[1].fallback_used

\* Two decisions are equal in every field except timestamp.
EqualButTimestamp(d1, d2) ==
    [d1 EXCEPT !.timestamp = 0] = [d2 EXCEPT !.timestamp = 0]

C19_TemplateFromRegistry ==
    (/\ decision # NoDecision
     /\ decidedWith[1].loaded /\ decidedWith[1].hasTemplates
     /\ decidedWith[2] = FallbackAssets)
        => /\ decision[1].error = None
           /\ \E k \in 1..Len(decidedWith[1].templates) :
                  LET template == decidedWith[1].templates[k]
                      matches(j) ==
                          decision[1].intent
                              \in decidedWith[1].templates[j].intents
                  IN  /\ decision[1].template = template.id
                      /\ \/ matches(k) /\ \A j \in 1..(k - 1) : ~matches(j)
                         \/ /\ \A j \in 1..Len(decidedWith[1].templates) :
                                   ~matches(j)
                            /\ template.key = decidedWith[1].defaultTemplate

\* C20: personalize called with an override intent hands the Decision Engine
\* an intent result with the override as intent, confidence 1.0 and exactly
\* one synthetic signal of weight 1.0, whatever the page context, and the
\* returned decision carries that intent and confidence 1.0.
C20_OverrideBypassesDetection ==
    [][(/\ eventCounts'.decision_made = eventCounts.decision_made + 1
        /\ lastCycle'.override # None)
          => /\ context' = context
             /\ lastIntentResult'[1].intent = lastCycle'.override
             /\ lastIntentResult'[1].confidence = ConfidenceOne
             /\ Len(lastIntentResult'[1].signals) = 1
             /\ lastIntentResult'[1].signals[1].type = "preview_override"
             /\ lastIntentResult'[1].signals[1].weight = 100
             /\ DOMAIN lastIntentResult'[1].scores = {lastCycle'.override}
             /\ decision'[1].intent = lastCycle'.override
             /\ decision'[1].confidence = ConfidenceOne]_vars

\* personalize({intent: 'BUY_NOW'}) as the first call on a page whose
\* context alone gives BUY_NOW with confidence 0.70: no detect() call has
\* read the context.
C20_Witness ==
    /\ eventCounts.decision_made = 1
    /\ lastCycle.override = "BUY_NOW"
    /\ context = <<>>
    /\ lastIntentResult = <<SyntheticResult("BUY_NOW")>>
    /\ decision[1].intent = "BUY_NOW"
    /\ decision[1].confidence = ConfidenceOne

\* C21: when every storage read and write fails, each applyVariant call of
\* an enabled explorer returns the fresh random draw whatever was returned or
\* persisted before, no call changes the stored document, and no winner is
\* locked (hence none announced).
C21_DeniedStorageNoMemory ==
    [][/\ storage' = storage
       /\ lastCall'.winnerAfter = None
       /\ (lastCall'.op = "applyVariant" /\ lastCall'.enabled)
             => /\ lastCall'.variant = lastCall'.random
                /\ returned'[lastCall'.intent] = lastCall'.random]_vars

\* An enabled applyVariant call for BUY_NOW returned the other variant than
\* the call before it, while an unreadable document holds a winner for it.
C21_Witness ==
    /\ lastCall.op = "applyVariant"
    /\ lastCall.enabled
    /\ lastCall.intent = "BUY_NOW"
    /\ lastCall.previous \in Variants
    /\ lastCall.previous # lastCall.variant
    /\ storage.winners["BUY_NOW"] # None

\* C26: with two tabs interleaving the load and save steps of
\* recordImpression / recordClick an update can be lost.  The persisted
\* counter of a pair never exceeds the record calls completed for it, and it
\* falls short of them only after a save that landed on a document another
\* save had replaced since the saving tab loaded; C26_Witness is the state
\* with the lost update.
C26_LostUpdateByRace ==
    \A v \in Variants :
        /\ storage.impressions[Key(TabIntent, v)] <= tabLog.impressions[v]
        /\ storage.clicks[Key(TabIntent, v)] <= tabLog.clicks[v]
        /\ (\/ storage.impressions[Key(TabIntent, v)] < tabLog.impressions[v]
            \/ storage.clicks[Key(TabIntent, v)] < tabLog.clicks[v])
              => tabLog.raced

\* No call is in flight and the persisted impression counter of a pair is
\* smaller than the number of completed recordImpression calls for it.
C26_Witness ==
    /\ \A t \in Tabs : pending[t] = NotPending
    /\ \E v \in Variants :
          storage.impressions[Key(TabIntent, v)] < tabLog.impressions[v]

\* C27: a winner entry persisted for an intent stays set to the same variant,
\* also when two tabs interleave the load and save steps of their calls.
C27_WinnerPermanent ==
    [][storage.winners[TabIntent] # None
          => storage'.winners[TabIntent] = storage.winners[TabIntent]]_vars

\* C22: whichever registry request settles first, and whichever of them
\* fails, nothing is initialised or decided before both have settled; once
\* they have, the Decision Engine holds the embedded registry in place of
\* each failed one and personalize() has run, and it runs no second time.
C22_FallbackThenOnce ==
    [][/\ loadCount' < 2
             => /\ templateRegistry' = NullTemplates
                /\ assetRegistry' = NullAssets
                /\ context' = <<>>
                /\ decision' = NoDecision
                /\ eventCounts'.decision_made = 0
       /\ loadCount' >= 2
             => /\ Len(loaded'.settled) = 2
                /\ \A k \in 1..2 :
                      loaded'.settled[k].failed
                          => IF loaded'.settled[k].which = "templates"
                             THEN templateRegistry' = FallbackTemplates
                             ELSE assetRegistry' = FallbackAssets
                /\ templateRegistry'.loaded
                /\ assetRegistry'.loaded
                /\ context' # <<>>
                /\ eventCounts'.decision_made <= 1
                /\ (uncaught' = None /\ loadCount' = 2)
                      => eventCounts'.decision_made = 1
       /\ context # <<>> => (context' = context /\ decision' = decision)]_vars

\* The assets were served first, then the templates request failed: the
\* engine holds the embedded templates with the served assets and the one
\* personalize() produced a decision.
C22_Witness ==
    /\ loadCount = 2
    /\ loaded.settled = <<[which |-> "assets", failed |-> FALSE],
                          [which |-> "templates", failed |-> TRUE]>>
    /\ templateRegistry = FallbackTemplates
    /\ assetRegistry = PartialAssets
    /\ decision # NoDecision
    /\ decision[1].error = None
    /\ eventCounts.decision_made = 1

\* C23: a personalization cycle yields a decision whatever the optional
\* context, a query string with an undecodable percent-escape included: with
\* the embedded registries, once the first cycle has run there is a decision.
C23_MalformedContextDecides ==
    (/\ sdkState = "ready"
     /\ templateRegistry = FallbackTemplates
     /\ assetRegistry = FallbackAssets)
        => (decision # NoDecision /\ decision[1].error = None)

\* C24: if injecting a decision fails at any step, the content swap of the
\* deferred callback included, the hero shows its original content and class
\* again and does not stay hidden.  Once the callback of the latest swap has
\* failed and no timer is left, the hero is as the page delivered it.
C24_FailedInjectRestores ==
    (uncaught # None /\ timers = <<>>)
        => /\ hero[1].innerHTML = defaultContent[1].innerHTML
           /\ hero[1].className = defaultContent[1].className
           /\ hero[1].opacity # "0"

\* C25: with A/B exploration enabled, a click on the hero CTA rendered for
\* intent I and served variant V increments the persisted click counter of
\* (I, V) by one.
C25_CtaClickCounted ==
    [][(/\ ctaClickEvents' = ctaClickEvents + 1
        /\ isEnabled
        /\ hero[1].cta[1].abVariant # None)
          => storage'.clicks[Key(hero[1].cta[1].intent,
                                 hero[1].cta[1].abVariant)]
                = storage.clicks[Key(hero[1].cta[1].intent,
                                     hero[1].cta[1].abVariant)] + 1]_vars

\* C28: no personalization cycle produces a decision before registry
\* loading has completed and the Decision Engine holds the registries, the
\* cycles of the Context Observer included.
C28_NoDecisionBeforeLoaded ==
    sdkState # "ready"
        => /\ decision = NoDecision
           /\ eventCounts.decision_made = 0

\* C29: the cooldown timestamp of the Context Observer is recorded only by
\* a personalization cycle that completed: a step that sets it also logs the
\* decision_made record of the cycle it triggered.
C29_CooldownAfterCompletedCycle ==
    [][lastRePersonalizationTime' # lastRePersonalizationTime
          => eventCounts'.decision_made = eventCounts.decision_made + 1]_vars

\* C30: the Context Observer is idle until the settle delay after its init
\* has elapsed, no interaction before then changes the accumulator or
\* triggers a re-personalization, once observing it stays so, and a repeated
\* init neither restarts the observation nor arms the timer again.
C30_IdleUntilSettled ==
    [][/\ ~observerStarted'
             => /\ behaviorScores' = ZeroScores
                /\ observedActions'.length = 0
                /\ eventCounts'.behavioral_re_personalization = 0
                /\ lastRePersonalizationTime' = 0
       /\ observerStarted'
             => /\ isInitialized'
                /\ now' - initTime' >= OBSERVATION_DELAY_MS
       /\ observerStarted => observerStarted'
       /\ isInitialized => (isInitialized' /\ initTime' = initTime)]_vars

\* The observer is observing and has scored an interaction, the clock stands
\* past the settle delay, and init was called before IntentFlow.init().
C30_Witness ==
    /\ observerStarted
    /\ observedActions.length > 0
    /\ behaviorScores # ZeroScores
    /\ initTime = StartTime
    /\ now >= initTime + OBSERVATION_DELAY_MS
    /\ sdkState = "unloaded"

\* C31: in every state of the Context Observer the accumulator holds the
\* five intent keys, every score is at least 0 and the DEFAULT score is 0;
\* a step that triggers no re-personalization decreases no score.
C31_ScoresNonNegative ==
    [][/\ DOMAIN behaviorScores' = IntentSet
       /\ \A key \in IntentSet : behaviorScores'[key] >= 0
       /\ behaviorScores'["DEFAULT"] = 0
       /\ eventCounts'.behavioral_re_personalization
             = eventCounts.behavioral_re_personalization
             => \A key \in IntentSet :
                   behaviorScores'[key] >= behaviorScores[key]]_vars

\* A re-personalization has decayed the scores and a later interaction was
\* scored on top of the decayed accumulator.
C31_Witness ==
    /\ eventCounts.behavioral_re_personalization = 1
    /\ currentSessionIntent # None
    /\ observedActions.length >= 3
    /\ \E key \in IntentSet :
          /\ behaviorScores[key] > 0
          /\ behaviorScores[key] % ScoreUnit # 0

\* C32: a scroll sample adds a velocity reading, and possibly a COMPARE
\* increment, only when an earlier sample exists and lies more than 0 ms and
\* less than 500 ms back; the first sample and a sample after 500 ms or more
\* only set lastY and lastTime; the window never holds more than 10
\* readings.
C32_ScrollGapFilter ==
    [][LET dt == now - scrollTracker.lastTime
           continues == /\ scrollTracker.lastTime > 0
                        /\ dt > 0
                        /\ dt < 500
           scored == \/ behaviorScores' # behaviorScores
                     \/ actionTypes' # actionTypes
       IN  /\ Len(scrollTracker'.velocities) <= 10
           /\ scrollTracker'.velocities # scrollTracker.velocities
                 => continues
           /\ scored => continues /\ scrollTracker' # scrollTracker
           /\ scrollTracker' # scrollTracker
                 => /\ scrollTracker'.lastTime = now
                    /\ scrollTracker'.lastY \in ScrollPositions
                    /\ ~continues
                          => /\ scrollTracker'.velocities
                                   = scrollTracker.velocities
                             /\ ~scored]_vars

\* The window is full and has dropped a fast reading that was scored: more
\* than 10 readings were taken.
C32_Witness ==
    /\ Len(scrollTracker.velocities) = 10
    /\ Len(actionTypes) >
          Cardinality({k \in 1..10 :
                          scrollTracker.velocities[k]
                              > SCROLL_VELOCITY_THRESHOLD})
    /\ scrollTracker.lastTime = now
    /\ now >= initTime + OBSERVATION_DELAY_MS + 11 * 499

\* C33: every personalization cycle appends exactly one decision_made
\* record to the event log, and a step that locks an A/B winner appends a
\* record of its own to that log.
C33_CyclesAndWinnersLogged ==
    [][/\ Len(timers') > Len(timers)
             => eventCounts'.decision_made = eventCounts.decision_made + 1
       /\ \A i \in IntentSet :
             (storage.winners[i] = None /\ storage'.winners[i] # None)
                => \E name \in DOMAIN eventCounts
                                  \ {"decision_made",
                                     "behavioral_re_personalization"} :
                      eventCounts'[name] = eventCounts[name] + 1]_vars

\* C34: once the visitor has selected a persona with the toggle of the demo
\* page, the Context Observer re-personalizes to no intent other than the
\* selected one.
C34_ToggleLocksObserver ==
    [][(/\ currentPersona # "DEFAULT"
        /\ currentPersona' = currentPersona
        /\ eventCounts'.behavioral_re_personalization
              = eventCounts.behavioral_re_personalization + 1)
          => lastIntentResult'[1].intent = currentPersona]_vars

\* C35: with A/B exploration enabled and working storage, a personalization
\* cycle increments exactly one impression counter by one, that of the
\* decision's intent and the variant applyVariant returned, and the decision
\* is tagged with that variant.
C35_OneImpressionPerCycle ==
    [][(/\ isEnabled
        /\ eventCounts'.decision_made = eventCounts.decision_made + 1)
          => /\ lastCall'.op = "applyVariant"
             /\ lastCall'.intent = decision'[1].intent
             /\ storage'.impressions =
                   [storage.impressions EXCEPT
                       ![Key(decision'[1].intent, lastCall'.variant)] = @ + 1]
             /\ Len(timers') = Len(timers) + 1
             /\ timers'[Len(timers')].shown.abVariant = lastCall'.variant
             /\ timers'[Len(timers')].shown.intent = decision'[1].intent]_vars

\* Two cycles ran with exploration enabled: a detected DEFAULT decision
\* served variant B and a BUY_NOW decision reached the sample with A.
C35_Witness ==
    /\ isEnabled
    /\ Len(timers) = 2
    /\ storage.impressions[Key("DEFAULT", "B")] = 1
    /\ \E k \in 1..2 : /\ timers[k].shown.intent = "DEFAULT"
                       /\ timers[k].shown.abVariant = "B"
    /\ storage.impressions[Key("BUY_NOW", "A")] = MIN_SAMPLE_SIZE
    /\ storage.winners["BUY_NOW"] = "A"

\* C39: a decision tagged _abVariant = 'B' whose impression is recorded for
\* variant B reaches the renderer with the headline, subheadline and CTA of
\* variant B for its intent, on every page type.
C39_VariantBShown ==
    \A k \in 1..Len(timers) :
        (/\ timers[k].shown.abVariant = "B"
         /\ storage.impressions[Key(timers[k].shown.intent, "B")] > 0)
            => timers[k].shown.text =
                  [from |-> "variantB", key |-> timers[k].shown.intent]

\* The variant other than v.
OtherVariant(v) == IF v = "A" THEN "B" ELSE "A"

\* C36: with working storage and one tab, an intent without a locked winner
\* has all its impressions on the variant persisted as its assignment: the
\* counter of the other variant is 0, and both are 0 while nothing is
\* assigned.
C36_ImpressionsOnAssignment ==
    \A i \in IntentSet :
        storage.winners[i] = None
            => IF storage.assignments[i] = None
               THEN TotalImpressions(storage, i) = 0
               ELSE storage.impressions[
                        Key(i, OtherVariant(storage.assignments[i]))] = 0

\* An intent assigned B has several impressions, all on B, and no winner yet.
C36_Witness ==
    \E i \in ABIntents :
        /\ storage.winners[i] = None
        /\ storage.assignments[i] = "B"
        /\ storage.impressions[Key(i, "B")] = MIN_SAMPLE_SIZE - 1
        /\ storage.impressions[Key(i, "A")] = 0

C38_ClickFrame ==
    [][(lastCall'.op = "recordClick" /\ storage' # storage)
          => storage' =
                [storage EXCEPT
                    !.clicks[Key(lastCall'.intent, lastCall'.variant)]
                        = @ + 1]]_vars

\* A click on B was recorded after the sample was reached with B served and
\* A locked: B now has the higher rate and the winner is still A.
C38_Witness ==
    /\ lastCall.op = "recordClick"
    /\ lastCall.variant = "B"
    /\ storage.winners[lastCall.intent] = "A"
    /\ storage.impressions[Key(lastCall.intent, "B")] >= MIN_SAMPLE_SIZE
    /\ storage.clicks[Key(lastCall.intent, "B")] = 1
    /\ storage.clicks[Key(lastCall.intent, "A")] = 0

\* ContextObserver.getReport(): rePersonalizationCount is the number of
\* entries of observedActions whose type is
\* 'behavioral_re_personalization'; currentSessionIntent is reported as
\* stored.
getReport ==
    [isEnabled |-> observerStarted,
     rePersonalizationCount |->
         Len(SelectSeq(actionTypes,
                       LAMBDA t : t = "behavioral_re_personalization")),
     currentSessionIntent |-> currentSessionIntent]

\* C40: the rePersonalizationCount of getReport() is the number of
\* re-personalizations the observer has triggered so far, and
\* currentSessionIntent is None as long as there was none.
C40_ReportCountsTriggers ==
    /\ getReport.rePersonalizationCount
           = eventCounts.behavioral_re_personalization
    /\ eventCounts.behavioral_re_personalization = 0
           => getReport.currentSessionIntent = None

====
